---- MODULE Spec2Model ----
(***************************************************************************)
(* A model of the Zagros stack virtual machine: the Cell value layer, the  *)
(* guarded data stack, the address stack, the register bank, the memory,   *)
(* the interrupt and I/O tables, the cores, the round-robin scheduler and  *)
(* the fetch/dispatch loop with its 55 instruction handlers.               *)
(*                                                                         *)
(* Representation.  TLC integers are 32-bit signed, so a 32-bit word (a    *)
(* Cell, an instruction pointer) is kept as the int32 that has its bit     *)
(* pattern: the four bytes of the `bs` array of class Cell are read back   *)
(* from it with ByteOf, and unsigned arithmetic is done on 16-bit limbs.   *)
(* The 65535-byte memory array is kept as the finite map of its non-zero   *)
(* bytes (every other byte reads 0).                                       *)
(***************************************************************************)
EXTENDS Integers, Sequences, FiniteSets, TLC

\* ------------------------------------------------------------------------
\* Size configuration (zagros_configuration.h)
\* ------------------------------------------------------------------------
DATA_STACK_SIZE == 32

ADDRESS_STACK_SIZE == 128

REGISTER_BANK_SIZE == 24

MEMORY_SIZE == 65535

INTERRUPT_TABLE_SIZE == 128

IO_TABLE_SIZE == 16

IO_MEMORY_ADDRESS_BEGIN == 0

IO_MEMORY_ADDRESS_END == 192

CORE_COUNT == 2

\* Number of entries of the jump table of interpret().
TABLE_SIZE == 55

\* ------------------------------------------------------------------------
\* Bounds of the model
\* ------------------------------------------------------------------------
\* Scheduler ticks explored in one call of run.
MaxTicks == 700

\* Calls of load_program explored on one VM.
MaxLoads == 2

\* Calls of run explored on one VM.
MaxRuns == 2

\* Largest pops / pushes count handed to guard when it is exercised alone.
MaxGuardCount == 34

\* the longest block, and the reach of the addresses at either end of the
\* memory, in the calls made on a Memory directly
MaxBlock == 4

\* the most cores a VM is instantiated with when sel_next_core is called on
\* its own
MaxCores == 4

\* ------------------------------------------------------------------------
\* Enumerations (result.hpp, instruction_mode.hpp)
\* ------------------------------------------------------------------------
Error ==
  {"None", "DivisionByZero", "InvalidFloatOperation", "OutOfMemory",
   "DataStackOverflow", "DataStackUnderflow", "AddressStackOverflow",
   "AddressStackUnderflow", "IllegalRegisterId", "IllegalMemoryAddress",
   "IllegalInterruptId", "SystemHalt"}

OpMode == {"SIGNED", "UNSIGNED", "FLOAT"}

AddressMode == {"DIRECT", "RELATIVE"}

\* Outcomes that are not a status of the program: "UB" is undefined
\* behaviour of the C++ code whose effect the build does not fix (the
\* process may crash); "Unmodelled" is IEEE-754 arithmetic, which this
\* model does not compute.
UB == "UB"

Unmodelled == "Unmodelled"

\* ------------------------------------------------------------------------
\* Opcodes: the index of each handler block in the jump table of interpret
\* ------------------------------------------------------------------------
NO == 0

LW == 1

LH == 2

LB == 3

FW == 4

FH == 5

FB == 6

SW == 7

SH == 8

SB == 9

DU == 10

DR == 11

SP == 12

PU == 13

PO == 14

EQ == 15

NE == 16

LT == 17

GT == 18

AD == 19

SU == 20

MU == 21

DM == 22

MD == 23

AN == 24

OR == 25

XO == 26

NT == 27

SL == 28

SR == 29

PA == 30

UN == 31

RL == 32

CA == 33

CC == 34

JU == 35

CJ == 36

RE == 37

CR == 38

SV == 39

HI == 40

SI == 41

TI == 42

II == 43

HS == 44

IC == 45

AC == 46

PC == 47

SC == 48

RR == 49

WR == 50

CP == 51

BC == 52

UU == 53

FF == 54

\* ------------------------------------------------------------------------
\* Cell: four raw bytes, little endian, kept as the int32 of that pattern
\* ------------------------------------------------------------------------
W16 == 256 * 256

\* low and high 16-bit limbs of to_uint32()
Lo(c) == c % W16

Hi(c) == (c \div W16) % W16

\* the word with the given limbs
FromLimbs(lo, hi) == IF hi >= 32768 THEN W16 * (hi - W16) + lo ELSE W16 * hi + lo

\* bs[i], i in 0..3
ByteOf(c, i) ==
  CASE i = 0 -> c % 256
    [] i = 1 -> (c \div 256) % 256
    [] i = 2 -> (c \div W16) % 256
    [] i = 3 -> (c \div (256 * W16)) % 256

\* Cell(b0, b1, b2, b3)
CellBytes(b0, b1, b2, b3) == FromLimbs(b0 + 256 * b1, b2 + 256 * b3)

\* to_bytes()
to_bytes(c) == <<ByteOf(c, 0), ByteOf(c, 1), ByteOf(c, 2), ByteOf(c, 3)>>

\* Cell()
ZeroCell == CellBytes(0, 0, 0, 0)

\* Cell(bool): std::fill_n(bs, 4, value ? 0xFF : 0x00)
BoolCell(b) == IF b THEN CellBytes(255, 255, 255, 255) ELSE CellBytes(0, 0, 0, 0)

\* to_bool taking every cell that is not zero for true
to_bool_nonzero(c) == \E i \in 0..3 : ByteOf(c, i) # 0

\* to_bool(): all four bytes are 0xFF
to_bool(c) == \A i \in 0..3 : ByteOf(c, i) = 255

to_byte(c) == ByteOf(c, 0)

\* to_int32()
to_int32(c) == c

\* unsigned order on the 32-bit patterns
LtU32(a, b) == Hi(a) < Hi(b) \/ (Hi(a) = Hi(b) /\ Lo(a) < Lo(b))

\* a + b modulo 2^32
AddU32(a, b) ==
  LET lo == Lo(a) + Lo(b)
      hi == Hi(a) + Hi(b) + (lo \div W16)
  IN FromLimbs(lo % W16, hi % W16)

\* a - b modulo 2^32
SubU32(a, b) ==
  LET lo == Lo(a) - Lo(b)
      borrow == IF lo < 0 THEN 1 ELSE 0
      hi == Hi(a) - Hi(b) - borrow
  IN FromLimbs(lo % W16, hi % W16)

\* a * b modulo 2^32, by columns of bytes
MulU32(a, b) ==
  LET x(i) == ByteOf(a, i)
      y(i) == ByteOf(b, i)
      c0 == x(0) * y(0)
      c1 == x(0) * y(1) + x(1) * y(0) + (c0 \div 256)
      c2 == x(0) * y(2) + x(1) * y(1) + x(2) * y(0) + (c1 \div 256)
      c3 == x(0) * y(3) + x(1) * y(2) + x(2) * y(1) + x(3) * y(0) + (c2 \div 256)
  IN CellBytes(c0 % 256, c1 % 256, c2 % 256, c3 % 256)

\* the uint32 value is below n (n a small bound such as a table size)
Below(c, n) == Hi(c) = 0 /\ Lo(c) < n

\* bit-level helpers on naturals below 2^16
RECURSIVE BitAnd(_, _)
BitAnd(x, y) ==
  IF x = 0 \/ y = 0 THEN 0
  ELSE (x % 2) * (y % 2) + 2 * BitAnd(x \div 2, y \div 2)

BitOr(x, y) == x + y - BitAnd(x, y)

BitXor(x, y) == x + y - 2 * BitAnd(x, y)

\* IEEE-754 single precision, read from the bit pattern: the magnitude
\* is the pattern without its sign bit
FloatMag(c) == (Hi(c) % 32768) * W16 + Lo(c)

\* to_float() == 0.0 (true of +0.0 and of -0.0)
FloatIsZero(c) == FloatMag(c) = 0

\* to_float() < to_float(): false when either is a NaN; otherwise the
\* order of the signed magnitudes
FloatLess(a, b) ==
  LET IsNaN(c) == FloatMag(c) > 32640 * W16
      Key(c) == IF Hi(c) >= 32768 THEN 0 - FloatMag(c) ELSE FloatMag(c)
  IN ~IsNaN(a) /\ ~IsNaN(b) /\ Key(a) < Key(b)

\* Result of a Cell operation: a status and a value.
Ok(v) == [err |-> "None", v |-> v]

Fail(e) == [err |-> e, v |-> ZeroCell]

\* an operation the language leaves undefined: alts are the values the
\* builds that survive it produce
Undef(alts) == [err |-> UB, v |-> ZeroCell, alts |-> alts]

\* Cell::equal / Cell::not_equal compare the raw patterns
equal(l, r) == BoolCell(l = r)

not_equal(l, r) == BoolCell(l # r)

less_than(l, r, op_mode) ==
  CASE op_mode = "SIGNED" -> Ok(BoolCell(to_int32(l) < to_int32(r)))
    [] op_mode = "UNSIGNED" -> Ok(BoolCell(LtU32(l, r)))
    [] op_mode = "FLOAT" -> Ok(BoolCell(FloatLess(l, r)))

greater_than(l, r, op_mode) ==
  CASE op_mode = "SIGNED" -> Ok(BoolCell(to_int32(l) > to_int32(r)))
    [] op_mode = "UNSIGNED" -> Ok(BoolCell(LtU32(r, l)))
    [] op_mode = "FLOAT" -> Ok(BoolCell(FloatLess(r, l)))

INT_MIN == CellBytes(0, 0, 0, 128)

INT_MAX == CellBytes(255, 255, 255, 127)

\* the int32_t sum, difference or product of a and b is not an int32_t
AddOverflows(a, b) ==
  \/ b > 0 /\ a > INT_MAX - b
  \/ b < 0 /\ a < INT_MIN - b

SubOverflows(a, b) ==
  \/ b < 0 /\ a > INT_MAX + b
  \/ b > 0 /\ a < INT_MIN + b

\* 2^31 \div a, for a >= 2
PowerOver(a) == (INT_MAX \div a) + (IF INT_MAX % a = a - 1 THEN 1 ELSE 0)

MulOverflows(a, b) ==
  IF a = 0 \/ b = 0 \/ a = 1 \/ b = 1 THEN FALSE
  ELSE IF a = INT_MIN \/ b = INT_MIN THEN TRUE
  ELSE IF a > 0 /\ b > 0 THEN b > INT_MAX \div a
  ELSE IF a > 0 THEN b < 0 - PowerOver(a)
  ELSE IF b > 0 THEN a < 0 - PowerOver(b)
  ELSE (0 - b) > INT_MAX \div (0 - a)

\* the result of an operation that wraps where it is defined
Wrapped(v, undefined) == IF undefined THEN Undef({v}) ELSE Ok(v)

\* add / subtract / multiply.  The UNSIGNED forms wrap.  The SIGNED forms
\* compute on int32_t, where a result that does not fit is undefined: the
\* machine's instruction wraps, a build that traps on overflow stops the
\* process.  The float forms are not computed.
add(l, r, op_mode) ==
  IF op_mode = "FLOAT" THEN Fail(Unmodelled)
  ELSE Wrapped(AddU32(l, r), op_mode = "SIGNED" /\ AddOverflows(l, r))

subtract(l, r, op_mode) ==
  IF op_mode = "FLOAT" THEN Fail(Unmodelled)
  ELSE Wrapped(SubU32(l, r), op_mode = "SIGNED" /\ SubOverflows(l, r))

multiply(l, r, op_mode) ==
  IF op_mode = "FLOAT" THEN Fail(Unmodelled)
  ELSE Wrapped(MulU32(l, r), op_mode = "SIGNED" /\ MulOverflows(l, r))

\* C++ integer division truncates towards zero; b # 0, not INT_MIN / -1
TruncDiv(a, b) ==
  IF b = INT_MIN THEN (IF a = INT_MIN THEN 1 ELSE 0)
  ELSE LET nb == IF b < 0 THEN 0 - b ELSE b
           f == a \div nb
           t == IF a < 0 /\ a % nb # 0 THEN f + 1 ELSE f
       IN IF b < 0 THEN 0 - t ELSE t

TruncRem(a, b) == a - TruncDiv(a, b) * b

\* quotient and remainder of the uint32 values, d # 0
UDivMod(a, d) ==
  IF Hi(d) >= 32768
  THEN IF LtU32(a, d) THEN [q |-> ZeroCell, r |-> a]
                      ELSE [q |-> 1, r |-> SubU32(a, d)]
  ELSE LET dd == to_int32(d) IN
       IF Hi(a) < 32768
       THEN [q |-> (to_int32(a) \div dd), r |-> (to_int32(a) % dd)]
       ELSE LET ah == (Hi(a) \div 2) * W16 + (Hi(a) % 2) * 32768 + (Lo(a) \div 2)
                al == Lo(a) % 2
                q1 == ah \div dd
                r1 == ah % dd
                q2 == AddU32(q1, q1)
            IN IF r1 + al >= dd - r1
               THEN [q |-> AddU32(q2, 1), r |-> ((r1 - (dd - r1)) + al)]
               ELSE [q |-> q2, r |-> (2 * r1 + al)]

\* Result of divide_remainder: status, modulo, quotient.
DivOk(m, q) == [err |-> "None", modulo |-> m, quotient |-> q]

DivFail(e) == [err |-> e, modulo |-> ZeroCell, quotient |-> ZeroCell]

\* INT_MIN / -1 traps where division is an instruction that faults, and
\* yields INT_MIN remainder 0 elsewhere
DivUndef ==
  [err |-> UB, modulo |-> ZeroCell, quotient |-> ZeroCell,
   alts |-> {[err |-> "None", modulo |-> ZeroCell, quotient |-> CellBytes(0, 0, 0, 128)]}]

divide_remainder(l, r, op_mode) ==
  CASE op_mode = "SIGNED" ->
         IF to_int32(r) = 0 THEN DivFail("DivisionByZero")
         ELSE IF to_int32(l) = INT_MIN /\ to_int32(r) = 0 - 1 THEN DivUndef
         ELSE DivOk(TruncRem(to_int32(l), to_int32(r)),
                    TruncDiv(to_int32(l), to_int32(r)))
    [] op_mode = "UNSIGNED" ->
         IF r = ZeroCell THEN DivFail("DivisionByZero")
         ELSE DivOk(UDivMod(l, r).r, UDivMod(l, r).q)
    [] op_mode = "FLOAT" ->
         IF FloatIsZero(r) THEN DivFail("DivisionByZero") ELSE DivFail(Unmodelled)

\* the SIGNED form multiplies on int32_t after the test for zero: a
\* product that does not fit is undefined, and the machine's wraps
multiply_divide_remainder(l, mul, r, op_mode) ==
  LET d == divide_remainder(MulU32(l, mul), r, op_mode)
  IN IF op_mode = "FLOAT"
     THEN (IF FloatIsZero(r) THEN DivFail("DivisionByZero") ELSE DivFail(Unmodelled))
     ELSE IF op_mode = "SIGNED" /\ r # ZeroCell /\ MulOverflows(l, mul)
     THEN [err |-> UB, modulo |-> ZeroCell, quotient |-> ZeroCell,
           alts |-> IF d.err = UB THEN d.alts ELSE {d}]
     ELSE d

bitwise_and(l, r) ==
  FromLimbs(BitAnd(Lo(l), Lo(r)), BitAnd(Hi(l), Hi(r)))

bitwise_or(l, r) ==
  FromLimbs(BitOr(Lo(l), Lo(r)), BitOr(Hi(l), Hi(r)))

bitwise_xor(l, r) ==
  FromLimbs(BitXor(Lo(l), Lo(r)), BitXor(Hi(l), Hi(r)))

bitwise_not(c) == FromLimbs(W16 - 1 - Lo(c), W16 - 1 - Hi(c))

RECURSIVE ShlN(_, _)
ShlN(c, k) == IF k = 0 THEN c ELSE ShlN(AddU32(c, c), k - 1)

\* one step of >>; fill is the bit shifted in at the top
RECURSIVE ShrN(_, _, _)
ShrN(c, k, fill) ==
  IF k = 0 THEN c
  ELSE ShrN(FromLimbs((Lo(c) \div 2) + (Hi(c) % 2) * 32768,
                      (Hi(c) \div 2) + fill * 32768), k - 1, fill)

\* a shift count outside 0..31 is undefined behaviour in C++: the shift
\* instruction either masks the count to five bits or shifts everything out
bitwise_shift_left(l, r, op_mode) ==
  CASE op_mode = "FLOAT" -> Fail("InvalidFloatOperation")
    [] OTHER -> IF Below(r, 32) THEN Ok(ShlN(l, Lo(r)))
                ELSE Undef({ShlN(l, Lo(r) % 32), ZeroCell})

bitwise_shift_right(l, r, op_mode) ==
  CASE op_mode = "FLOAT" -> Fail("InvalidFloatOperation")
    [] op_mode = "SIGNED" ->
         IF Below(r, 32)
         THEN Ok(ShrN(l, Lo(r), IF Hi(l) >= 32768 THEN 1 ELSE 0))
         ELSE Undef({ShrN(l, Lo(r) % 32, IF Hi(l) >= 32768 THEN 1 ELSE 0),
                     BoolCell(Hi(l) >= 32768)})
    [] op_mode = "UNSIGNED" ->
         IF Below(r, 32) THEN Ok(ShrN(l, Lo(r), 0))
         ELSE Undef({ShrN(l, Lo(r) % 32, 0), ZeroCell})

\* ------------------------------------------------------------------------
\* DataStack (stack.hpp): the array and the top index.  push and pop are
\* unguarded, as in the source: an index outside the array does not write,
\* and top is left wherever the arithmetic puts it.
\* ------------------------------------------------------------------------
DataStack == [arr |-> [i \in 0..(DATA_STACK_SIZE - 1) |-> ZeroCell], top |-> 0]


\* guard with the two tests in the other order
guard_underflow_first(stack, pops, pushes) ==
  IF stack.top < pops THEN "DataStackUnderflow"
  ELSE IF stack.top + pushes > DATA_STACK_SIZE THEN "DataStackOverflow"
  ELSE "None"

guard(stack, pops, pushes) ==
  IF stack.top + pushes > DATA_STACK_SIZE THEN "DataStackOverflow"
  ELSE IF stack.top < pops THEN "DataStackUnderflow"
  ELSE "None"

\* arr[top++] = value
push(stack, value) ==
  [arr |-> IF stack.top \in DOMAIN stack.arr
           THEN [stack.arr EXCEPT ![stack.top] = value] ELSE stack.arr,
   top |-> stack.top + 1]

\* arr[--top]: the stack after the pop, and the value it returns
pop(stack) == [stack EXCEPT !.top = stack.top - 1]

popped(stack) ==
  IF (stack.top - 1) \in DOMAIN stack.arr THEN stack.arr[stack.top - 1] ELSE ZeroCell

\* the k-th cell from the top (0 is the top) of a stack holding it
Peek(stack, k) == stack.arr[stack.top - 1 - k]

\* ------------------------------------------------------------------------
\* AddressStack (stack.hpp)
\* ------------------------------------------------------------------------
AddressStack == [arr |-> [i \in 0..(ADDRESS_STACK_SIZE - 1) |-> ZeroCell], top |-> 0]

\* push with the bound tested by > instead of >=
addrs_push_past_end(stack, value) ==
  IF stack.top > ADDRESS_STACK_SIZE
  THEN [err |-> "AddressStackOverflow", stack |-> stack]
  ELSE [err |-> "None",
        stack |-> [arr |-> IF stack.top \in DOMAIN stack.arr
                           THEN [stack.arr EXCEPT ![stack.top] = value] ELSE stack.arr,
                   top |-> stack.top + 1]]

addrs_push(stack, value) ==
  IF stack.top >= ADDRESS_STACK_SIZE
  THEN [err |-> "AddressStackOverflow", stack |-> stack]
  ELSE [err |-> "None",
        stack |-> [arr |-> [stack.arr EXCEPT ![stack.top] = value],
                   top |-> stack.top + 1]]

addrs_pop(stack) ==
  IF stack.top = 0
  THEN [err |-> "AddressStackUnderflow", v |-> ZeroCell, stack |-> stack]
  ELSE [err |-> "None", v |-> stack.arr[stack.top - 1],
        stack |-> [stack EXCEPT !.top = stack.top - 1]]

\* clear() of both stacks only resets top
stack_clear(stack) == [stack EXCEPT !.top = 0]

\* ------------------------------------------------------------------------
\* RegisterBank (register.hpp)
\* ------------------------------------------------------------------------
RegisterBank == [i \in 0..(REGISTER_BANK_SIZE - 1) |-> ZeroCell]

regs_read(regs, id) ==
  IF ~Below(id, REGISTER_BANK_SIZE) THEN Fail("IllegalRegisterId")
  ELSE Ok(regs[Lo(id)])

\* write with the bound tested by > instead of >=
regs_write_past_end(regs, id, value) ==
  IF ~Below(id, REGISTER_BANK_SIZE + 1)
  THEN [err |-> "IllegalRegisterId", regs |-> regs]
  ELSE [err |-> "None",
        regs |-> IF Lo(id) \in DOMAIN regs THEN [regs EXCEPT ![Lo(id)] = value]
                 ELSE regs]

regs_write(regs, id, value) ==
  IF ~Below(id, REGISTER_BANK_SIZE)
  THEN [err |-> "IllegalRegisterId", regs |-> regs]
  ELSE [err |-> "None", regs |-> [regs EXCEPT ![Lo(id)] = value]]

\* clear(): std::fill with Cell{}
regs_clear(regs) == [i \in DOMAIN regs |-> ZeroCell]

\* ------------------------------------------------------------------------
\* Memory (memory.hpp).  A memory is the map of its non-zero bytes.
\* ------------------------------------------------------------------------
Memory == << >>

MemAt(m, a) == IF a \in DOMAIN m THEN m[a] ELSE 0

\* the memory m with the bytes of the finite map upd deposited
MemPut(m, upd) ==
  LET both == DOMAIN m \cup DOMAIN upd
      val(a) == IF a \in DOMAIN upd THEN upd[a] ELSE m[a]
  IN [a \in {x \in both : val(x) # 0} |-> val(a)]


\* fetch_opcode with the bound tested by > instead of >=
fetch_opcode_past_end(m, addr) ==
  IF ~Below(addr, MEMORY_SIZE + 1) THEN [err |-> "SystemHalt", op |-> 0]
  ELSE [err |-> "None", op |-> MemAt(m, Lo(addr))]

fetch_opcode(m, addr) ==
  IF ~Below(addr, MEMORY_SIZE) THEN [err |-> "SystemHalt", op |-> 0]
  ELSE [err |-> "None", op |-> MemAt(m, Lo(addr))]

\* read_bytes<BS>(addr), addr a size_t below 2^31
read_bytes(m, BS, addr) ==
  IF addr + BS > MEMORY_SIZE THEN Fail("IllegalMemoryAddress")
  ELSE LET dst(i) == IF i < BS THEN MemAt(m, addr + i) ELSE 0
       IN Ok(CellBytes(dst(0), dst(1), dst(2), dst(3)))

\* write_bytes storing the four bytes of the cell whatever BS is
write_bytes_whole_cell(m, BS, addr, value) ==
  IF addr + BS > MEMORY_SIZE THEN [err |-> "IllegalMemoryAddress", mem |-> m]
  ELSE [err |-> "None",
        mem |-> MemPut(m, [a \in {x \in addr..(addr + 3) : x < MEMORY_SIZE} |->
                             ByteOf(value, a - addr)])]

write_bytes(m, BS, addr, value) ==
  IF addr + BS > MEMORY_SIZE THEN [err |-> "IllegalMemoryAddress", mem |-> m]
  ELSE [err |-> "None",
        mem |-> MemPut(m, [a \in addr..(addr + BS - 1) |-> ByteOf(value, a - addr)])]

\* write_io_byte with the end of the window tested by > instead of >=
write_io_byte_past_end(m, addr, byte) ==
  IF addr < IO_MEMORY_ADDRESS_BEGIN \/ addr > IO_MEMORY_ADDRESS_END
  THEN [err |-> "IllegalMemoryAddress", mem |-> m]
  ELSE [err |-> "None", mem |-> MemPut(m, addr :> byte)]

\* write_io_byte(addr, byte), addr a size_t
write_io_byte(m, addr, byte) ==
  IF addr < IO_MEMORY_ADDRESS_BEGIN \/ addr >= IO_MEMORY_ADDRESS_END
  THEN [err |-> "IllegalMemoryAddress", mem |-> m]
  ELSE [err |-> "None", mem |-> MemPut(m, addr :> byte)]

\* read_io_byte(addr); uint8_t{} goes with the error
read_io_byte(m, addr) ==
  IF addr < IO_MEMORY_ADDRESS_BEGIN \/ addr >= IO_MEMORY_ADDRESS_END
  THEN [err |-> "IllegalMemoryAddress", v |-> 0]
  ELSE [err |-> "None", v |-> MemAt(m, addr)]

\* VM::io_write and VM::io_read hand the call to the memory
io_write(vm, addr, byte) == write_io_byte(vm.mem, addr, byte)

io_read(vm, addr) == read_io_byte(vm.mem, addr)

\* the size_t value of a cell; every value of 2^16 or more stands for
\* itself in a comparison with a bound of at most MEMORY_SIZE
to_size(c) == IF Hi(c) = 0 THEN Lo(c) ELSE W16 + Lo(c)

\* compare_block: both branches of the source return Cell{true}
compare_block(m, len, dst, orig) ==
  IF dst + len > MEMORY_SIZE THEN Fail("IllegalMemoryAddress")
  ELSE IF orig + len > MEMORY_SIZE THEN Fail("IllegalMemoryAddress")
  ELSE IF \A i \in 0..(len - 1) : MemAt(m, dst + i) = MemAt(m, orig + i)
       THEN Ok(BoolCell(TRUE))
       ELSE Ok(BoolCell(TRUE))

\* std::copy_n, element by element from the first to the last
RECURSIVE CopyForward(_, _, _, _, _)
CopyForward(m, i, len, dst, orig) ==
  IF i >= len THEN m
  ELSE CopyForward(MemPut(m, (dst + i) :> MemAt(m, orig + i)), i + 1, len, dst, orig)

\* std::copy_n as one memmove of the block
CopyMove(m, len, dst, orig) ==
  MemPut(m, [a \in dst..(dst + len - 1) |-> MemAt(m, orig + (a - dst))])

\* copy_block: the set of its outcomes.  std::copy_n on bytes copies
\* forward one by one or moves the block at once; the two differ exactly
\* when dst lies inside (orig, orig + len), which the standard leaves
\* undefined.
copy_block(m, len, dst, orig) ==
  IF dst + len > MEMORY_SIZE \/ orig + len > MEMORY_SIZE
  THEN {[err |-> "IllegalMemoryAddress", mem |-> m]}
  ELSE {[err |-> "None", mem |-> CopyForward(m, 0, len, dst, orig)],
        [err |-> "None", mem |-> CopyMove(m, len, dst, orig)]}

\* load_program clearing the memory before it copies
load_program_clears(m, prg, prg_size) ==
  IF prg_size > MEMORY_SIZE THEN m
  ELSE LET laid == {a \in 0..(prg_size - 1) : a < Len(prg) /\ prg[a + 1] # 0}
       IN [a \in laid |-> prg[a + 1]]

\* load_program(prg, prg_size): the sequence prg holds the leading bytes of
\* the array, whose other bytes are zero; std::copy_n leaves in
\* [0, prg_size) the bytes of the array and the rest as it was
load_program(m, prg, prg_size) ==
  IF prg_size > MEMORY_SIZE THEN m
  ELSE LET kept == {a \in DOMAIN m : a >= prg_size}
           laid == {a \in 0..(prg_size - 1) : a < Len(prg) /\ prg[a + 1] # 0}
       IN [a \in kept \cup laid |-> IF a \in laid THEN prg[a + 1] ELSE m[a]]

\* ------------------------------------------------------------------------
\* InterruptTable (interrupt.hpp), IoTable (io.h)
\* ------------------------------------------------------------------------
InterruptTable == [i \in 0..(INTERRUPT_TABLE_SIZE - 1) |-> ZeroCell]

int_table_set(table, id, addr) ==
  IF ~Below(id, INTERRUPT_TABLE_SIZE)
  THEN [err |-> "IllegalInterruptId", table |-> table]
  ELSE [err |-> "None", table |-> [table EXCEPT ![Lo(id)] = addr]]

\* IoTable(): every slot holds the same default Callback; a slot is TRUE
\* when its pointer is not null
IoTable == [i \in 0..(IO_TABLE_SIZE - 1) |-> TRUE]

\* call(id) with the last slot of the table taken for outside it
io_call_stops_short(table, id) ==
  IF ~Below(id, IO_TABLE_SIZE - 1) THEN [err |-> "None", ran |-> << >>]
  ELSE IF ~table[Lo(id)] THEN [err |-> "None", ran |-> << >>]
  ELSE [err |-> "None", ran |-> <<Lo(id)>>]

\* call(id): the ids whose callback runs (none or one), or UB when the
\* slot read lies outside the array (the source tests the id against
\* INTERRUPT_TABLE_SIZE): the stray pointer is null and nothing runs, or
\* the call through it kills the process
io_call(table, id) ==
  IF ~Below(id, INTERRUPT_TABLE_SIZE) THEN [err |-> "None", ran |-> << >>]
  ELSE IF Lo(id) \notin DOMAIN table THEN [err |-> UB, ran |-> << >>]
  ELSE IF ~table[Lo(id)] THEN [err |-> "None", ran |-> << >>]
  ELSE [err |-> "None", ran |-> <<Lo(id)>>]

\* ------------------------------------------------------------------------
\* Core (core.hpp)
\* ------------------------------------------------------------------------
Core ==
  [ip |-> 0, active |-> FALSE, op_mode |-> "SIGNED", addr_mode |-> "DIRECT",
   data |-> DataStack, addrs |-> AddressStack, regs |-> RegisterBank]

init(core, init_ip) ==
  [ip |-> init_ip, active |-> FALSE, op_mode |-> "SIGNED", addr_mode |-> "DIRECT",
   data |-> stack_clear(core.data), addrs |-> stack_clear(core.addrs),
   regs |-> RegisterBank]

CoreIds == 0..(CORE_COUNT - 1)

Min(S) == CHOOSE x \in S : \A y \in S : x <= y

\* ------------------------------------------------------------------------
\* VM: scheduler
\* ------------------------------------------------------------------------
\* sel_next_core: the value of cur_core_id after the two loops
\* sel_next_core taking the first active core after cur, cyclically
sel_next_core_rotates(cs, cur) ==
  LET order == [i \in 1..CORE_COUNT |-> (cur + i) % CORE_COUNT]
      found == {i \in 1..CORE_COUNT : cs[order[i]].active}
  IN IF found = {} THEN cur ELSE order[Min(found)]

sel_next_core(cs, cur) ==
  IF CORE_COUNT = 1 THEN cur
  ELSE LET up == {next \in (cur + 1)..(CORE_COUNT - 1) : cs[next].active}
           c1 == IF up # {} THEN Min(up) ELSE cur
           down == {next \in 0..(c1 - 1) : cs[next].active}
       IN IF down # {} THEN Min(down) ELSE c1

\* sel_next_core of the VM template (zagros.hpp), whose core count CS is a
\* parameter: the same two loops
sel_next_core_CS(cs, cur, CS) ==
  IF CS = 1 THEN cur
  ELSE LET up == {next \in (cur + 1)..(CS - 1) : cs[next].active}
           c1 == IF up # {} THEN Min(up) ELSE cur
           down == {next \in 0..(c1 - 1) : cs[next].active}
       IN IF down # {} THEN Min(down) ELSE c1

\* ------------------------------------------------------------------------
\* VM: instruction handlers.  A handler maps the machine vm (a record of
\* the VM's fields, cur_core_id naming the executing core) to its status
\* err, the machine it leaves, and tail: TRUE when it ran to its last
\* statement, FALSE when it left through an early return.
\* ------------------------------------------------------------------------
Cur(vm) == vm.cores[vm.cur_core_id]

WithCore(vm, core) == [vm EXCEPT !.cores[vm.cur_core_id] = core]

WithData(vm, data) == [vm EXCEPT !.cores[vm.cur_core_id].data = data]

Ret(e, vm) == [err |-> e, tail |-> FALSE, vm |-> vm]

Done(vm) == [err |-> "None", tail |-> TRUE, vm |-> vm]

\* the handler ran into undefined behaviour: the process dies in vm, or
\* the build survives it with one of alts
Undefined(vm, alts) == [err |-> UB, tail |-> FALSE, vm |-> vm, alts |-> alts]

\* the outcomes of one handler result
Outcomes(r) ==
  IF r.err = UB THEN {[err |-> UB, tail |-> FALSE, vm |-> r.vm]} \cup r.alts ELSE {r}


\* a handler tail that forgets core.op_mode = OpMode::SIGNED
Advance_keeps_mode(core, n) == [core EXCEPT !.ip = AddU32(core.ip, n)]

\* core.ip += n; core.op_mode = OpMode::SIGNED
Advance(core, n) == [core EXCEPT !.ip = AddU32(core.ip, n), !.op_mode = "SIGNED"]

i_nop(vm) == Done(WithCore(vm, Advance(Cur(vm), 1)))

i_load(vm, S, addr_offset, i_len) ==
  LET core == Cur(vm)
      guard_err == guard(core.data, 0, 1)
      cell_addr == to_size(core.ip) + addr_offset
      rd == read_bytes(vm.mem, S, cell_addr)
  IN IF guard_err # "None" THEN Ret(guard_err, vm)
     ELSE IF rd.err # "None" THEN Ret(rd.err, vm)
     ELSE Done(WithCore(vm, Advance([core EXCEPT !.data = push(core.data, rd.v)], i_len)))

i_load_word(vm) == i_load(vm, 4, 4, 8)

i_load_half(vm) == i_load(vm, 2, 1, 3)

i_load_byte(vm) == i_load(vm, 1, 1, 2)

i_fetch(vm, S) ==
  LET core == Cur(vm)
      guard_err == guard(core.data, 1, 1)
      cell_addr == popped(core.data)
      d1 == pop(core.data)
      rd == read_bytes(vm.mem, S, to_size(cell_addr))
  IN IF guard_err # "None" THEN Ret(guard_err, vm)
     ELSE IF rd.err # "None" THEN Ret(rd.err, WithData(vm, d1))
     ELSE Done(WithCore(vm, Advance([core EXCEPT !.data = push(d1, rd.v)], 1)))

i_fetch_word(vm) == i_fetch(vm, 4)

i_fetch_half(vm) == i_fetch(vm, 2)

i_fetch_byte(vm) == i_fetch(vm, 1)

i_store(vm, S) ==
  LET core == Cur(vm)
      guard_err == guard(core.data, 2, 0)
      cell_addr == popped(core.data)
      d1 == pop(core.data)
      cell == popped(d1)
      d2 == pop(d1)
      wr == write_bytes(vm.mem, S, to_size(cell_addr), cell)
  IN IF guard_err # "None" THEN Ret(guard_err, vm)
     ELSE IF wr.err # "None" THEN Ret(wr.err, WithData(vm, d2))
     ELSE Done(WithCore([vm EXCEPT !.mem = wr.mem],
                        Advance([core EXCEPT !.data = d2], 1)))

i_store_word(vm) == i_store(vm, 4)

i_store_half(vm) == i_store(vm, 2)

i_store_byte(vm) == i_store(vm, 1)


\* i_dupe guarding its pop only
i_dupe_guards_pop_only(vm) ==
  LET core == Cur(vm)
      guard_err == guard(core.data, 1, 0)
      obj == popped(core.data)
      d1 == pop(core.data)
  IN IF guard_err # "None" THEN Ret(guard_err, vm)
     ELSE Done(WithCore(vm, Advance([core EXCEPT !.data = push(push(d1, obj), obj)], 1)))

i_dupe(vm) ==
  LET core == Cur(vm)
      guard_err == guard(core.data, 1, 2)
      obj == popped(core.data)
      d1 == pop(core.data)
  IN IF guard_err # "None" THEN Ret(guard_err, vm)
     ELSE Done(WithCore(vm, Advance([core EXCEPT !.data = push(push(d1, obj), obj)], 1)))


\* i_drop advancing the ip before it tests the guard
i_drop_advances_first(vm) ==
  LET core == Advance(Cur(vm), 1)
      guard_err == guard(core.data, 1, 0)
  IN IF guard_err # "None" THEN Ret(guard_err, WithCore(vm, core))
     ELSE Done(WithCore(vm, [core EXCEPT !.data = pop(core.data)]))

i_drop(vm) ==
  LET core == Cur(vm)
      guard_err == guard(core.data, 1, 0)
  IN IF guard_err # "None" THEN Ret(guard_err, vm)
     ELSE Done(WithCore(vm, Advance([core EXCEPT !.data = pop(core.data)], 1)))

\* i_swap advancing the ip before it tests the guard
i_swap_advances_first(vm) ==
  LET core == Advance(Cur(vm), 1)
      guard_err == guard(core.data, 2, 2)
      right == popped(core.data)
      d1 == pop(core.data)
      left == popped(d1)
      d2 == pop(d1)
  IN IF guard_err # "None" THEN Ret(guard_err, WithCore(vm, core))
     ELSE Done(WithCore(vm, [core EXCEPT !.data = push(push(d2, right), left)]))

i_swap(vm) ==
  LET core == Cur(vm)
      guard_err == guard(core.data, 2, 2)
      right == popped(core.data)
      d1 == pop(core.data)
      left == popped(d1)
      d2 == pop(d1)
  IN IF guard_err # "None" THEN Ret(guard_err, vm)
     ELSE Done(WithCore(vm, Advance([core EXCEPT !.data = push(push(d2, right), left)], 1)))

i_push_address(vm) ==
  LET core == Cur(vm)
      guard_err == guard(core.data, 1, 0)
      addr == popped(core.data)
      d1 == pop(core.data)
      pr == addrs_push(core.addrs, addr)
  IN IF guard_err # "None" THEN Ret(guard_err, vm)
     ELSE IF pr.err # "None" THEN Ret(pr.err, WithData(vm, d1))
     ELSE Done(WithCore(vm, Advance([core EXCEPT !.data = d1, !.addrs = pr.stack], 1)))

i_pop_address(vm) ==
  LET core == Cur(vm)
      guard_err == guard(core.data, 0, 1)
      pr == addrs_pop(core.addrs)
  IN IF guard_err # "None" THEN Ret(guard_err, vm)
     ELSE IF pr.err # "None" THEN Ret(pr.err, vm)
     ELSE Done(WithCore(vm, Advance([core EXCEPT !.data = push(core.data, pr.v),
                                                 !.addrs = pr.stack], 1)))

\* i_binary_op(Cell (*op)(const Cell &, const Cell)); k is the opcode
\* whose handler passes op
i_binary_op(vm, k) ==
  LET core == Cur(vm)
      guard_err == guard(core.data, 2, 1)
      right == popped(core.data)
      d1 == pop(core.data)
      left == popped(d1)
      d2 == pop(d1)
      op(l, r) == CASE k = EQ -> equal(l, r)
                    [] k = NE -> not_equal(l, r)
                    [] k = AN -> bitwise_and(l, r)
                    [] k = OR -> bitwise_or(l, r)
                    [] k = XO -> bitwise_xor(l, r)
  IN IF guard_err # "None" THEN Ret(guard_err, vm)
     ELSE Done(WithCore(vm, Advance([core EXCEPT !.data = push(d2, op(left, right))], 1)))

\* i_binary_op(Cell (*op)(const Cell &, const Cell, const OpMode)); an
\* err of the operation here is UB or Unmodelled, never a program status
i_binary_op_mode(vm, k) ==
  LET core == Cur(vm)
      guard_err == guard(core.data, 2, 1)
      right == popped(core.data)
      d1 == pop(core.data)
      left == popped(d1)
      d2 == pop(d1)
      op(l, r, op_mode) == CASE k = LT -> less_than(l, r, op_mode)
                             [] k = GT -> greater_than(l, r, op_mode)
                             [] k = AD -> add(l, r, op_mode)
                             [] k = SU -> subtract(l, r, op_mode)
                             [] k = MU -> multiply(l, r, op_mode)
      result == op(left, right, core.op_mode)
  IN IF guard_err # "None" THEN Ret(guard_err, vm)
     ELSE IF result.err = UB
          THEN Undefined(WithData(vm, d2),
                 {Done(WithCore(vm, Advance([core EXCEPT !.data = push(d2, a)], 1)))
                    : a \in result.alts})
     ELSE IF result.err # "None" THEN Ret(result.err, WithData(vm, d2))
     ELSE Done(WithCore(vm, Advance([core EXCEPT !.data = push(d2, result.v)], 1)))

\* i_binary_op(result<Cell> (*op)(const Cell &, const Cell, const OpMode)):
\* on an error of the operation the source returns {guard_err, Unit{}}
i_binary_op_result(vm, k) ==
  LET core == Cur(vm)
      guard_err == guard(core.data, 2, 1)
      right == popped(core.data)
      d1 == pop(core.data)
      left == popped(d1)
      d2 == pop(d1)
      op(l, r, op_mode) == CASE k = SL -> bitwise_shift_left(l, r, op_mode)
                             [] k = SR -> bitwise_shift_right(l, r, op_mode)
      error_result == op(left, right, core.op_mode)
  IN IF guard_err # "None" THEN Ret(guard_err, vm)
     ELSE IF error_result.err = UB
          THEN Undefined(WithData(vm, d2),
                 {Done(WithCore(vm, Advance([core EXCEPT !.data = push(d2, a)], 1)))
                    : a \in error_result.alts})
     ELSE IF error_result.err # "None" THEN Ret(guard_err, WithData(vm, d2))
     ELSE Done(WithCore(vm, Advance([core EXCEPT !.data = push(d2, error_result.v)], 1)))

i_equal(vm) == i_binary_op(vm, EQ)

i_not_equal(vm) == i_binary_op(vm, NE)

i_less_than(vm) == i_binary_op_mode(vm, LT)

i_greater_than(vm) == i_binary_op_mode(vm, GT)

i_add(vm) == i_binary_op_mode(vm, AD)

i_subtract(vm) == i_binary_op_mode(vm, SU)

i_multiply(vm) == i_binary_op_mode(vm, MU)

i_divide_remainder(vm) ==
  LET core == Cur(vm)
      guard_err == guard(core.data, 2, 2)
      right == popped(core.data)
      d1 == pop(core.data)
      left == popped(d1)
      d2 == pop(d1)
      op_result == divide_remainder(left, right, core.op_mode)
  IN IF guard_err # "None" THEN Ret(guard_err, vm)
     ELSE IF op_result.err = UB
          THEN Undefined(WithData(vm, d2),
                 {Done(WithCore(vm, Advance(
                    [core EXCEPT !.data = push(push(d2, a.modulo), a.quotient)], 1)))
                    : a \in op_result.alts})
     ELSE IF op_result.err # "None" THEN Ret(op_result.err, WithData(vm, d2))
     ELSE Done(WithCore(vm, Advance(
            [core EXCEPT !.data = push(push(d2, op_result.modulo), op_result.quotient)], 1)))

i_multiply_divide_remainder(vm) ==
  LET core == Cur(vm)
      guard_err == guard(core.data, 3, 2)
      right == popped(core.data)
      d1 == pop(core.data)
      mul == popped(d1)
      d2 == pop(d1)
      left == popped(d2)
      d3 == pop(d2)
      op_result == multiply_divide_remainder(left, mul, right, core.op_mode)
  IN IF guard_err # "None" THEN Ret(guard_err, vm)
     ELSE IF op_result.err = UB
          THEN Undefined(WithData(vm, d3),
                 {Done(WithCore(vm, Advance(
                    [core EXCEPT !.data = push(push(d3, a.modulo), a.quotient)], 1)))
                    : a \in op_result.alts})
     ELSE IF op_result.err # "None" THEN Ret(op_result.err, WithData(vm, d3))
     ELSE Done(WithCore(vm, Advance(
            [core EXCEPT !.data = push(push(d3, op_result.modulo), op_result.quotient)], 1)))

i_and(vm) == i_binary_op(vm, AN)

i_or(vm) == i_binary_op(vm, OR)

i_xor(vm) == i_binary_op(vm, XO)

i_not(vm) ==
  LET core == Cur(vm)
      guard_err == guard(core.data, 1, 1)
      value == popped(core.data)
      d1 == pop(core.data)
  IN IF guard_err # "None" THEN Ret(guard_err, vm)
     ELSE Done(WithCore(vm, Advance([core EXCEPT !.data = push(d1, bitwise_not(value))], 1)))

i_shift_left(vm) == i_binary_op_result(vm, SL)

i_shift_right(vm) == i_binary_op_result(vm, SR)

i_pack_bytes(vm) ==
  LET core == Cur(vm)
      guard_err == guard(core.data, 4, 1)
      d == popped(core.data)
      s1 == pop(core.data)
      c == popped(s1)
      s2 == pop(s1)
      b == popped(s2)
      s3 == pop(s2)
      a == popped(s3)
      s4 == pop(s3)
      result == CellBytes(to_byte(d), to_byte(c), to_byte(b), to_byte(a))
  IN IF guard_err # "None" THEN Ret(guard_err, vm)
     ELSE Done(WithCore(vm, Advance([core EXCEPT !.data = push(s4, result)], 1)))

\* i_unpack_bytes pushing bs[0] first and bs[3] last
i_unpack_bytes_reversed(vm) ==
  LET core == Cur(vm)
      guard_err == guard(core.data, 1, 4)
      value == popped(core.data)
      s1 == pop(core.data)
      bs == to_bytes(value)
      s5 == push(push(push(push(s1, bs[1]), bs[2]), bs[3]), bs[4])
  IN IF guard_err # "None" THEN Ret(guard_err, vm)
     ELSE Done(WithCore(vm, Advance([core EXCEPT !.data = s5], 1)))

i_unpack_bytes(vm) ==
  LET core == Cur(vm)
      guard_err == guard(core.data, 1, 4)
      value == popped(core.data)
      s1 == pop(core.data)
      bs == to_bytes(value)
      s5 == push(push(push(push(s1, bs[4]), bs[3]), bs[2]), bs[1])
  IN IF guard_err # "None" THEN Ret(guard_err, vm)
     ELSE Done(WithCore(vm, Advance([core EXCEPT !.data = s5], 1)))

i_relative(vm) ==
  Done(WithCore(vm, Advance([Cur(vm) EXCEPT !.addr_mode = "RELATIVE"], 1)))


\* the switch with both cases taking the address as it is
Target_ignores_mode(core, addr) == addr

\* the switch on core.addr_mode of the four jumping handlers
Target(core, addr) ==
  CASE core.addr_mode = "DIRECT" -> addr
    [] core.addr_mode = "RELATIVE" -> AddU32(addr, core.ip)

\* core.addr_mode = DIRECT; core.op_mode = SIGNED
ResetModes(core) == [core EXCEPT !.addr_mode = "DIRECT", !.op_mode = "SIGNED"]

\* i_call taking the byte after the opcode for the return address
i_call_returns_to_next(vm) ==
  LET core == Cur(vm)
      guard_err == guard(core.data, 1, 0)
      return_addr == AddU32(core.ip, 1)
      pr == addrs_push(core.addrs, return_addr)
      call_addr == popped(core.data)
      d1 == pop(core.data)
  IN IF guard_err # "None" THEN Ret(guard_err, vm)
     ELSE IF pr.err # "None" THEN Ret(pr.err, vm)
     ELSE Done(WithCore(vm, ResetModes(
            [core EXCEPT !.addrs = pr.stack, !.data = d1, !.ip = Target(core, call_addr)])))

i_call(vm) ==
  LET core == Cur(vm)
      guard_err == guard(core.data, 1, 0)
      return_addr == AddU32(core.ip, 4)
      pr == addrs_push(core.addrs, return_addr)
      call_addr == popped(core.data)
      d1 == pop(core.data)
  IN IF guard_err # "None" THEN Ret(guard_err, vm)
     ELSE IF pr.err # "None" THEN Ret(pr.err, vm)
     ELSE Done(WithCore(vm, ResetModes(
            [core EXCEPT !.addrs = pr.stack, !.data = d1, !.ip = Target(core, call_addr)])))

i_conditional_call(vm) ==
  LET core == Cur(vm)
      guard_err == guard(core.data, 2, 0)
      call_addr == popped(core.data)
      d1 == pop(core.data)
      cond == popped(d1)
      d2 == pop(d1)
      return_addr == AddU32(core.ip, 4)
      pr == addrs_push(core.addrs, return_addr)
  IN IF guard_err # "None" THEN Ret(guard_err, vm)
     ELSE IF to_bool(cond)
          THEN IF pr.err # "None" THEN Ret(pr.err, WithData(vm, d2))
               ELSE Done(WithCore(vm, ResetModes(
                      [core EXCEPT !.data = d2, !.addrs = pr.stack,
                                   !.ip = Target(core, call_addr)])))
          ELSE Done(WithCore(vm, ResetModes([core EXCEPT !.data = d2])))

i_jump(vm) ==
  LET core == Cur(vm)
      guard_err == guard(core.data, 1, 0)
      jump_addr == popped(core.data)
      d1 == pop(core.data)
  IN IF guard_err # "None" THEN Ret(guard_err, vm)
     ELSE Done(WithCore(vm, ResetModes(
            [core EXCEPT !.data = d1, !.ip = Target(core, jump_addr)])))

i_conditional_jump(vm) ==
  LET core == Cur(vm)
      guard_err == guard(core.data, 2, 0)
      jump_addr == popped(core.data)
      d1 == pop(core.data)
      cond == popped(d1)
      d2 == pop(d1)
  IN IF guard_err # "None" THEN Ret(guard_err, vm)
     ELSE IF to_bool(cond)
          THEN Done(WithCore(vm, ResetModes(
                 [core EXCEPT !.data = d2, !.ip = Target(core, jump_addr)])))
          ELSE Done(WithCore(vm, ResetModes(
                 [core EXCEPT !.data = d2, !.ip = AddU32(core.ip, 4)])))

\* i_return reading the return address without popping it
i_return_keeps_cell(vm) ==
  LET core == Cur(vm)
      pr == addrs_pop(core.addrs)
  IN IF pr.err # "None" THEN Ret(pr.err, vm)
     ELSE Done(WithCore(vm, ResetModes([core EXCEPT !.ip = pr.v])))

i_return(vm) ==
  LET core == Cur(vm)
      pr == addrs_pop(core.addrs)
  IN IF pr.err # "None" THEN Ret(pr.err, vm)
     ELSE Done(WithCore(vm, ResetModes([core EXCEPT !.addrs = pr.stack, !.ip = pr.v])))

i_conditional_return(vm) ==
  LET core == Cur(vm)
      guard_err == guard(core.data, 1, 0)
      cond == popped(core.data)
      d1 == pop(core.data)
      pr == addrs_pop(core.addrs)
  IN IF guard_err # "None" THEN Ret(guard_err, vm)
     ELSE IF to_bool(cond)
          THEN IF pr.err # "None" THEN Ret(pr.err, WithData(vm, d1))
               ELSE Done(WithCore(vm, ResetModes(
                      [core EXCEPT !.data = d1, !.addrs = pr.stack, !.ip = pr.v])))
          ELSE Done(WithCore(vm, ResetModes(
                 [core EXCEPT !.data = d1, !.ip = AddU32(core.ip, 4)])))

i_set_interrupt(vm) ==
  LET core == Cur(vm)
      guard_err == guard(core.data, 2, 0)
      int_id == popped(core.data)
      d1 == pop(core.data)
      int_addr == popped(d1)
      d2 == pop(d1)
      sr == int_table_set(vm.int_table, int_id, int_addr)
  IN IF guard_err # "None" THEN Ret(guard_err, vm)
     ELSE IF sr.err # "None" THEN Ret(sr.err, WithData(vm, d2))
     ELSE Done(WithCore([vm EXCEPT !.int_table = sr.table],
                        Advance([core EXCEPT !.data = d2], 1)))

i_halt_interrupts(vm) ==
  Done(WithCore([vm EXCEPT !.int_enabled = FALSE], Advance(Cur(vm), 1)))

i_start_interrupts(vm) ==
  Done(WithCore([vm EXCEPT !.int_enabled = TRUE], Advance(Cur(vm), 1)))

\* interrupt(int_id) has an empty body
interrupt(vm, int_id) == vm

i_trigger_interrupt(vm) ==
  LET core == Cur(vm)
      guard_err == guard(core.data, 1, 0)
      int_id == popped(core.data)
      d1 == pop(core.data)
      vm1 == IF vm.int_enabled THEN interrupt(vm, int_id) ELSE vm
  IN IF guard_err # "None" THEN Ret(guard_err, vm)
     ELSE Done(WithCore(vm1, Advance([core EXCEPT !.data = d1], 1)))

i_invoke_io(vm) ==
  LET core == Cur(vm)
      guard_err == guard(core.data, 1, 0)
      io_id == popped(core.data)
      d1 == pop(core.data)
      cr == io_call(vm.io_table, io_id)
  IN IF guard_err # "None" THEN Ret(guard_err, vm)
     ELSE IF cr.err = UB
          THEN Undefined(WithData(vm, d1),
                 {Done(WithCore(vm, Advance([core EXCEPT !.data = d1], 1)))})
     ELSE Done(WithCore([vm EXCEPT !.io_log = vm.io_log \o cr.ran],
                        Advance([core EXCEPT !.data = d1], 1)))

\* i_halt_system stepping over the HS before it returns
i_halt_system_advances(vm) ==
  Ret("SystemHalt", WithCore(vm, [Cur(vm) EXCEPT !.ip = AddU32(Cur(vm).ip, 1)]))

i_halt_system(vm) == Ret("SystemHalt", vm)

\* cores[core_id.to_uint32()] with an id outside the array is undefined:
\* the process dies, or the stray write lands outside the state of the VM
i_init_core(vm) ==
  LET core == Cur(vm)
      guard_err == guard(core.data, 2, 0)
      core_id == popped(core.data)
      d1 == pop(core.data)
      addr == popped(d1)
      d2 == pop(d1)
      vm2 == WithData(vm, d2)
      vm3 == [vm2 EXCEPT !.cores[Lo(core_id)] = init(vm2.cores[Lo(core_id)], addr)]
  IN IF guard_err # "None" THEN Ret(guard_err, vm)
     ELSE IF ~Below(core_id, CORE_COUNT)
          THEN Undefined(vm2, {Done(WithCore(vm2, Advance(Cur(vm2), 1)))})
     ELSE Done(WithCore(vm3, Advance(Cur(vm3), 1)))

i_activate_core(vm) ==
  LET core == Cur(vm)
      guard_err == guard(core.data, 1, 0)
      core_id == popped(core.data)
      d1 == pop(core.data)
      vm1 == WithData(vm, d1)
      vm2 == [vm1 EXCEPT !.cores[Lo(core_id)].active = TRUE]
  IN IF guard_err # "None" THEN Ret(guard_err, vm)
     ELSE IF ~Below(core_id, CORE_COUNT)
          THEN Undefined(vm1, {Done(WithCore(vm1, Advance(Cur(vm1), 1)))})
     ELSE Done(WithCore(vm2, Advance(Cur(vm2), 1)))

i_pause_core(vm) ==
  LET core == Cur(vm)
      guard_err == guard(core.data, 1, 0)
      core_id == popped(core.data)
      d1 == pop(core.data)
      vm1 == WithData(vm, d1)
      vm2 == [vm1 EXCEPT !.cores[Lo(core_id)].active = FALSE]
  IN IF guard_err # "None" THEN Ret(guard_err, vm)
     ELSE IF ~Below(core_id, CORE_COUNT)
          THEN Undefined(vm1, {Done(WithCore(vm1, Advance(Cur(vm1), 1)))})
     ELSE Done(WithCore(vm2, Advance(Cur(vm2), 1)))

\* i_suspend_cur_core clearing the active flag of every core
i_suspend_cur_core_pauses_all(vm) ==
  LET paused == [vm EXCEPT !.cores = [d \in CoreIds |-> [vm.cores[d] EXCEPT !.active = FALSE]]]
  IN Done(WithCore(paused, Advance(Cur(paused), 1)))

i_suspend_cur_core(vm) ==
  Done(WithCore(vm, Advance([Cur(vm) EXCEPT !.active = FALSE], 1)))

i_read_register(vm) ==
  LET core == Cur(vm)
      guard_err == guard(core.data, 1, 1)
      reg_id == popped(core.data)
      d1 == pop(core.data)
      rd == regs_read(core.regs, reg_id)
  IN IF guard_err # "None" THEN Ret(guard_err, vm)
     ELSE IF rd.err # "None" THEN Ret(rd.err, WithData(vm, d1))
     ELSE Done(WithCore(vm, Advance([core EXCEPT !.data = push(d1, rd.v)], 1)))

i_write_register(vm) ==
  LET core == Cur(vm)
      guard_err == guard(core.data, 2, 0)
      reg_id == popped(core.data)
      d1 == pop(core.data)
      reg_val == popped(d1)
      d2 == pop(d1)
      wr == regs_write(core.regs, reg_id, reg_val)
  IN IF guard_err # "None" THEN Ret(guard_err, vm)
     ELSE IF wr.err # "None" THEN Ret(wr.err, WithData(vm, d2))
     ELSE Done(WithCore(vm, Advance([core EXCEPT !.data = d2, !.regs = wr.regs], 1)))

\* the set of outcomes of CP (see copy_block)
i_copy_block(vm) ==
  LET core == Cur(vm)
      guard_err == guard(core.data, 3, 0)
      len == popped(core.data)
      d1 == pop(core.data)
      dst == popped(d1)
      d2 == pop(d1)
      orig == popped(d2)
      d3 == pop(d2)
  IN IF guard_err # "None" THEN {Ret(guard_err, vm)}
     ELSE {IF cpy.err # "None" THEN Ret(cpy.err, WithData(vm, d3))
           ELSE Done(WithCore([vm EXCEPT !.mem = cpy.mem],
                              Advance([core EXCEPT !.data = d3], 1)))
           : cpy \in copy_block(vm.mem, to_size(len), to_size(dst), to_size(orig))}

i_block_compare(vm) ==
  LET core == Cur(vm)
      guard_err == guard(core.data, 3, 1)
      len == popped(core.data)
      d1 == pop(core.data)
      dst == popped(d1)
      d2 == pop(d1)
      orig == popped(d2)
      d3 == pop(d2)
      cmp == compare_block(vm.mem, to_size(len), to_size(dst), to_size(orig))
  IN IF guard_err # "None" THEN Ret(guard_err, vm)
     ELSE IF cmp.err # "None" THEN Ret(cmp.err, WithData(vm, d3))
     ELSE Done(WithCore(vm, Advance([core EXCEPT !.data = push(d3, cmp.v)], 1)))


\* i_unsigned_mode ending like every other handler, with the reset
i_unsigned_mode_resets(vm) ==
  LET core == Cur(vm)
  IN Done(WithCore(vm, [core EXCEPT !.ip = AddU32(core.ip, 1), !.op_mode = "SIGNED"]))

\* UU and FF advance the ip and set the mode; they do not reset it
i_unsigned_mode(vm) ==
  LET core == Cur(vm)
  IN Done(WithCore(vm, [core EXCEPT !.ip = AddU32(core.ip, 1), !.op_mode = "UNSIGNED"]))

i_float_mode(vm) ==
  LET core == Cur(vm)
  IN Done(WithCore(vm, [core EXCEPT !.ip = AddU32(core.ip, 1), !.op_mode = "FLOAT"]))

\* the handler block behind table[op], as the set of its outcomes
Dispatch(op, vm) ==
  CASE op = NO -> {i_nop(vm)}
    [] op = LW -> {i_load_word(vm)}
    [] op = LH -> {i_load_half(vm)}
    [] op = LB -> {i_load_byte(vm)}
    [] op = FW -> {i_fetch_word(vm)}
    [] op = FH -> {i_fetch_half(vm)}
    [] op = FB -> {i_fetch_byte(vm)}
    [] op = SW -> {i_store_word(vm)}
    [] op = SH -> {i_store_half(vm)}
    [] op = SB -> {i_store_byte(vm)}
    [] op = DU -> {i_dupe(vm)}
    [] op = DR -> {i_drop(vm)}
    [] op = SP -> {i_swap(vm)}
    [] op = PU -> {i_push_address(vm)}
    [] op = PO -> {i_pop_address(vm)}
    [] op = EQ -> {i_equal(vm)}
    [] op = NE -> {i_not_equal(vm)}
    [] op = LT -> {i_less_than(vm)}
    [] op = GT -> {i_greater_than(vm)}
    [] op = AD -> {i_add(vm)}
    [] op = SU -> {i_subtract(vm)}
    [] op = MU -> {i_multiply(vm)}
    [] op = DM -> {i_divide_remainder(vm)}
    [] op = MD -> {i_multiply_divide_remainder(vm)}
    [] op = AN -> {i_and(vm)}
    [] op = OR -> {i_or(vm)}
    [] op = XO -> {i_xor(vm)}
    [] op = NT -> {i_not(vm)}
    [] op = SL -> {i_shift_left(vm)}
    [] op = SR -> {i_shift_right(vm)}
    [] op = PA -> {i_pack_bytes(vm)}
    [] op = UN -> {i_unpack_bytes(vm)}
    [] op = RL -> {i_relative(vm)}
    [] op = CA -> {i_call(vm)}
    [] op = CC -> {i_conditional_call(vm)}
    [] op = JU -> {i_jump(vm)}
    [] op = CJ -> {i_conditional_jump(vm)}
    [] op = RE -> {i_return(vm)}
    [] op = CR -> {i_conditional_return(vm)}
    [] op = SV -> {i_set_interrupt(vm)}
    [] op = HI -> {i_halt_interrupts(vm)}
    [] op = SI -> {i_start_interrupts(vm)}
    [] op = TI -> {i_trigger_interrupt(vm)}
    [] op = II -> {i_invoke_io(vm)}
    [] op = HS -> {i_halt_system(vm)}
    [] op = IC -> {i_init_core(vm)}
    [] op = AC -> {i_activate_core(vm)}
    [] op = PC -> {i_pause_core(vm)}
    [] op = SC -> {i_suspend_cur_core(vm)}
    [] op = RR -> {i_read_register(vm)}
    [] op = WR -> {i_write_register(vm)}
    [] op = CP -> i_copy_block(vm)
    [] op = BC -> {i_block_compare(vm)}
    [] op = UU -> {i_unsigned_mode(vm)}
    [] op = FF -> {i_float_mode(vm)}

\* ------------------------------------------------------------------------
\* State
\* ------------------------------------------------------------------------
VARIABLES
  mem,          \* VM::mem
  int_table,    \* VM::int_table
  cores,        \* VM::cores
  io_table,     \* VM::io_table
  cur_core_id,  \* VM::cur_core_id
  int_enabled,  \* VM::int_enabled
  io_log,       \* the ids of the host callbacks run so far, in order
  pc,           \* "idle" before any run, "running" inside interpret, "returned" after
  status,       \* the status interpret returned last
  ticks,        \* passes through the fetch block in the current run
  loads,        \* calls of load_program so far
  runs,         \* calls of run so far
  last,         \* the last pass through the fetch block (history)
  last_op,      \* per core, the opcode of the last instruction it executed (history)
  executed,     \* per core, the instructions it executed in the current run (history)
  only_nops,    \* the current run began with every core active and has executed only NO
  probe,        \* a DataStack exercised on its own, as the unit tests do
  callers,      \* per core and address-stack cell, the instruction that pushed it (history)
  memop,        \* the last call the host made on the memory directly (history)
  unit,         \* an AddressStack, a RegisterBank, handlers or sel_next_core called alone
  after_hs      \* run has returned from HS and nothing was loaded since (history)

vars ==
  <<mem, int_table, cores, io_table, cur_core_id, int_enabled, io_log, pc, status,
    ticks, loads, runs, last, last_op, executed, only_nops, probe, callers, memop,
    unit, after_hs>>

\* the VM as the record the handlers work on
TheVM ==
  [mem |-> mem, int_table |-> int_table, cores |-> cores, io_table |-> io_table,
   cur_core_id |-> cur_core_id, int_enabled |-> int_enabled, io_log |-> io_log]

\* the origin of an address-stack cell that no CA pushed
NoCall == [at |-> 0 - 1, depth |-> 0 - 1]

\* no pass through the fetch block yet.  A pass records the core selected,
\* the byte fetched (-1 when the fetch failed), the handler block entered
\* (-1 when none), the handler that core entered before, the status and
\* whether the handler ran to its last statement, and, as the fetch block
\* found them, the core, the origin of the top cell of its address stack
\* and the callbacks run so far.
NoTick ==
  [core |-> 0 - 1, byte |-> 0 - 1, op |-> 0 - 1, prev |-> 0 - 1, err |-> "None",
   tail |-> FALSE, before |-> Core, call |-> NoCall, log |-> << >>]

\* no call on the memory yet
NoMemOp == [kind |-> "none"]

NoUnit == [kind |-> "none"]

NoProbe == [stack |-> DataStack, pops |-> 0, pushes |-> 0, result |-> "None", asked |-> FALSE]

\* ------------------------------------------------------------------------
\* The images the host loads.  LB takes its byte at ip + 1, LH its two
\* bytes at ip + 1, LW its four bytes at ip + 4.
\* ------------------------------------------------------------------------
Lb(b) == <<LB, b>>

Lh(b0, b1) == <<LH, b0, b1>>

Lw(b0, b1, b2, b3) == <<LW, 0, 0, 0, b0, b1, b2, b3>>

\* pushes the cell that to_bool takes for true
True == <<LB, 0, NT>>

RECURSIVE Rep(_, _)
Rep(seq, n) == IF n = 0 THEN << >> ELSE seq \o Rep(seq, n - 1)

\* core 0 initialises core 1 at 137, activates it and halts
SiblingProgram == Lb(137) \o Lb(1) \o <<IC>> \o Lb(1) \o <<AC, HS>>

\* LB id, II for the ids below n, in order
RECURSIVE IoCalls(_)
IoCalls(n) == IF n = 0 THEN << >> ELSE IoCalls(n - 1) \o Lb(n - 1) \o <<II>>

\* every slot of the IoTable invoked once, then HS
IoProgram == IoCalls(IO_TABLE_SIZE) \o <<HS>>

\* the images the host loads into a fresh VM, each named by what it exercises
Programs ==
  {
   \* sibling
   SiblingProgram,
   \* io
   IoProgram,
   \* halt
   <<HS>>,
   \* cores
   Lb(9) \o Lb(1) \o <<IC>> \o Lb(1) \o <<AC, HS>>,
   \* handover
   Lb(12) \o Lb(1) \o <<IC>> \o Lb(1) \o <<AC, RL, UU, SC, HS>> \o Lb(11) \o
     Lb(0) \o <<IC>> \o Lb(0) \o <<AC, NO>>,
   \* pause
   Lb(1) \o <<PC, SC, HS>>,
   \* div0
   Lb(1) \o Lb(0) \o <<DM>>,
   \* udiv0
   Lb(1) \o Lb(0) \o <<UU, DM>>,
   \* md
   Lb(7) \o Lb(3) \o Lb(2) \o <<MD>> \o Lb(1) \o Lb(0) \o <<MD>>,
   \* div
   Lw(249, 255, 255, 255) \o Lb(2) \o <<DM, UU, DM, HS>>,
   \* div min
   Lw(0, 0, 0, 128) \o Lw(255, 255, 255, 255) \o <<DM, HS>>,
   \* underflow
   <<DR>>,
   \* fill
   Rep(Lb(1), DATA_STACK_SIZE) \o <<DU>>,
   \* dupes
   Lb(1) \o Rep(<<DU>>, DATA_STACK_SIZE - 1),
   \* recurse
   Lb(0) \o <<CA>>,
   \* ret
   <<RE>>,
   \* po
   Lb(5) \o <<PU, PO, PO>>,
   \* badaddr
   Lh(255, 255) \o <<FB>>,
   \* badreg
   Lb(24) \o <<RR>>,
   \* badint
   Lb(0) \o Lb(128) \o <<SV>>,
   \* jump out
   Lw(255, 255, 255, 255) \o <<JU>>,
   \* jump end
   Lh(255, 255) \o <<JU>>,
   \* lt signed
   Lw(1, 0, 0, 128) \o Lb(1) \o <<LT, HS>>,
   \* lt unsigned
   Lw(1, 0, 0, 128) \o Lb(1) \o <<UU, LT, NO, HS>>,
   \* gt float
   Lw(1, 0, 0, 128) \o Lw(2, 0, 0, 128) \o <<FF, GT, NO, HS>>,
   \* uu halt
   <<UU, HS>>,
   \* ff halt
   <<FF, HS>>,
   \* uu ff
   <<UU, FF, UU, NO, HS>>,
   \* uu fail
   <<UU, DR>>,
   \* ff sl
   Rep(Lb(1), 4) \o <<FF, SL, HS>>,
   \* ff sr
   Lb(1) \o Lb(1) \o <<FF, SR, HS>>,
   \* shift
   Lb(8) \o Lb(2) \o <<SL>> \o Lb(1) \o <<SR>> \o Lw(255, 255, 255, 255) \o
     Lb(4) \o <<SR>> \o Lb(4) \o <<UU, SR, HS>>,
   \* shift ub
   Lb(1) \o Lb(33) \o <<SL>> \o Lw(255, 255, 255, 255) \o Lb(40) \o <<SR, HS>>,
   \* ju
   Lb(4) \o <<JU, NO, HS>>,
   \* rl ju
   <<RL>> \o Lb(4) \o <<JU, NO, NO, NO, HS>>,
   \* ca
   Lb(7) \o <<CA, NO, NO, NO, HS, RE>>,
   \* ca cr
   Lb(7) \o <<CA, NO, NO, NO, HS>> \o True \o <<CR>>,
   \* ca ca re
   Lb(9) \o <<CA, NO, NO, NO, HS, NO, NO>> \o Lb(16) \o <<CA, NO, NO, NO, RE, RE>>,
   \* rl ca
   <<RL, NO>> \o Lb(5) \o <<CA, NO, NO, NO, HS, NO, RE>>,
   \* cc true
   True \o Lb(10) \o <<CC, NO, NO, NO, HS>> \o True \o <<CR>>,
   \* rl cc true
   <<RL>> \o True \o Lb(5) \o <<CC, NO, NO, NO, HS, RE>>,
   \* cc false
   Lb(0) \o Lb(9) \o <<CC, HS>>,
   \* rl cc false
   <<RL>> \o Lb(7) \o Lb(0) \o Lb(9) \o <<CC, HS>>,
   \* cj true
   True \o Lb(7) \o <<CJ, NO, HS>>,
   \* cj false
   Lb(0) \o Lb(9) \o <<CJ, NO, NO, NO, HS>>,
   \* rl cj true
   <<RL>> \o True \o Lb(3) \o <<CJ, NO, NO, HS>>,
   \* rl cj false
   <<RL>> \o Lb(0) \o Lb(3) \o <<CJ, NO, NO, NO, HS>>,
   \* cj one
   Lb(1) \o Lb(9) \o <<CJ, NO, NO, NO, HS>>,
   \* cc most
   Lw(255, 255, 255, 0) \o Lb(30) \o <<CC, HS>>,
   \* cr one
   Lb(9) \o <<PU>> \o Lb(1) \o <<CR, NO, NO, NO, HS>>,
   \* eq float
   Lb(0) \o Lw(0, 0, 0, 128) \o <<FF, EQ>> \o Lw(0, 0, 0, 128) \o <<FF, NE, EQ, HS>>,
   \* rl re
   Lb(6) \o <<PU, RL, RE, NO, HS>>,
   \* rl cr
   Lb(9) \o <<PU, RL>> \o True \o <<CR, NO, HS>>,
   \* rl cr false
   <<RL>> \o Lb(0) \o <<CR, NO, NO, NO, HS>>,
   \* rl ic
   <<RL>> \o Lb(7) \o Lb(0) \o <<IC, NO, NO, HS>>,
   \* rl fail
   <<RL, JU>>,
   \* memory
   Lw(120, 86, 52, 18) \o Lb(200) \o <<SW>> \o Lb(200) \o <<FW>> \o Lb(200) \o
     <<FH>> \o Lb(200) \o <<FB>> \o Lb(204) \o <<SH>> \o Lb(206) \o <<SB, HS>>,
   \* arith
   Lb(7) \o Lb(3) \o <<AD>> \o Lb(2) \o <<SU>> \o Lb(5) \o <<MU, DU, EQ>> \o
     Lb(1) \o <<NE, NT>> \o Lb(6) \o <<OR>> \o Lb(3) \o <<AN>> \o Lb(5) \o <<XO>> \o
     Lb(9) \o <<SP, GT, DR, HS>>,
   \* wrap
   Lw(255, 255, 255, 127) \o Lb(1) \o <<AD>> \o Lb(2) \o <<MU>> \o Lb(1) \o
     <<SU, HS>>,
   \* pack
   Lb(1) \o Lb(2) \o Lb(3) \o Lb(4) \o <<PA, UN, HS>>,
   \* interrupts
   Lb(50) \o Lb(5) \o <<SV, HI, SI>> \o Lb(5) \o <<TI>> \o Lb(3) \o <<II, HS>>,
   \* io stray
   Lb(20) \o <<II, HS>>,
   \* registers
   Lb(42) \o Lb(3) \o <<WR>> \o Lb(3) \o <<RR, HS>>,
   \* copy
   Lb(0) \o Lb(200) \o Lb(4) \o <<CP>> \o Lb(0) \o Lb(200) \o Lb(4) \o <<BC>> \o
     Lb(0) \o Lb(2) \o Lb(6) \o <<CP, HS>>,
   \* lh
   Lh(52, 18) \o <<HS>>,
   \* sp full
   Rep(Lb(1), DATA_STACK_SIZE - 1) \o Lb(2) \o <<SP, HS>>,
   \* ad full
   Rep(Lb(1), DATA_STACK_SIZE) \o <<AD, HS>>,
   \* core 7
   Lb(137) \o Lb(7) \o <<IC>> \o Lb(7) \o <<AC>> \o Lb(7) \o <<PC, HS>>,
   \* undefined
   <<200, HS>>
  }

\* the images the host loads over a program that has run: sixteen NO, or HS
Patches == {Rep(<<NO>>, 16), <<HS>>}

\* ------------------------------------------------------------------------
\* Construction, load_program, run
\* ------------------------------------------------------------------------
\* VM(): every core default-constructed, core 0 active
Init ==
  /\ mem = Memory
  /\ int_table = InterruptTable
  /\ cores = [c \in CoreIds |-> IF c = 0 THEN [Core EXCEPT !.active = TRUE] ELSE Core]
  /\ io_table = IoTable
  /\ cur_core_id = 0
  /\ int_enabled = FALSE
  /\ io_log = << >>
  /\ pc = "idle"
  /\ status = "None"
  /\ ticks = 0
  /\ loads = 0
  /\ runs = 0
  /\ last = NoTick
  /\ last_op = [c \in CoreIds |-> 0 - 1]
  /\ executed = [c \in CoreIds |-> 0]
  /\ only_nops = FALSE
  /\ probe = NoProbe
  /\ callers = [c \in CoreIds |-> << >>]
  /\ memop = NoMemOp
  /\ unit = NoUnit
  /\ after_hs = FALSE

\* VM::load_program, called by the host between runs: any image first,
\* one of the patches afterwards
Load ==
  /\ pc \in {"idle", "returned"}
  /\ loads < MaxLoads
  /\ \E prg \in (IF loads = 0 THEN Programs ELSE Patches) :
       mem' = load_program(mem, prg, Len(prg))
  /\ loads' = loads + 1
  /\ after_hs' = FALSE
  /\ UNCHANGED <<int_table, cores, io_table, cur_core_id, int_enabled, io_log,
                 pc, status, ticks, runs, last, last_op, executed, only_nops, probe,
                 callers, memop, unit>>

\* VM::run up to the first fetch: interpret sets cur_core_id to the last core
Run ==
  /\ pc \in {"idle", "returned"}
  /\ runs < MaxRuns
  /\ cur_core_id' = CORE_COUNT - 1
  /\ pc' = "running"
  /\ status' = "None"
  /\ ticks' = 0
  /\ runs' = runs + 1
  /\ last' = NoTick
  /\ executed' = [c \in CoreIds |-> 0]
  /\ only_nops' = (\A c \in CoreIds : cores[c].active)
  /\ UNCHANGED <<mem, int_table, cores, io_table, int_enabled, io_log, loads,
                 last_op, probe, callers, memop,
                 unit, after_hs>>

\* ------------------------------------------------------------------------
\* interpret: the fetch block and the handler blocks
\* ------------------------------------------------------------------------
\* the origin of the top cell of core c's address stack
TopCall(c) == IF callers[c] = << >> THEN NoCall ELSE callers[c][Len(callers[c])]

\* the state interpret leaves when the handler block k, entered for the
\* byte fetched by core c, ends with the outcome r
Commit(c, byte, k, r) ==
  /\ mem' = r.vm.mem
  /\ int_table' = r.vm.int_table
  /\ cores' = r.vm.cores
  /\ io_table' = r.vm.io_table
  /\ cur_core_id' = r.vm.cur_core_id
  /\ int_enabled' = r.vm.int_enabled
  /\ io_log' = r.vm.io_log
  /\ pc' = IF r.err = "None" THEN "running"
           ELSE IF r.err \in Error THEN "returned" ELSE "stopped"
  /\ status' = r.err
  /\ ticks' = ticks + 1
  /\ last' = [core |-> c, byte |-> byte, op |-> k, prev |-> last_op[c], err |-> r.err,
              tail |-> r.tail, before |-> cores[c], call |-> TopCall(c), log |-> io_log]
  /\ last_op' = [last_op EXCEPT ![c] = k]
  /\ executed' = [executed EXCEPT ![c] = @ + 1]
  /\ only_nops' = (only_nops /\ k = NO)
  /\ callers' = [d \in CoreIds |->
                   LET depth == r.vm.cores[d].addrs.top
                   IN IF depth > Len(callers[d])
                      THEN Append(callers[d],
                                  IF d = c /\ k = CA
                                  THEN [at |-> cores[c].ip, depth |-> cores[c].addrs.top]
                                  ELSE NoCall)
                      ELSE SubSeq(callers[d], 1, depth)]
  /\ after_hs' = (byte = HS /\ k = HS /\ r.err = "SystemHalt")
  /\ UNCHANGED <<loads, runs, probe, memop, unit>>

\* the VM as a handler block finds it: sel_next_core() has set cur_core_id
Fetched == [TheVM EXCEPT !.cur_core_id = sel_next_core(cores, cur_core_id)]

\* one pass: fetch, goto *table[k], the handler block of k, whose call of
\* its handler gives the results in block
Tick(k, block, cap) ==
  /\ pc = "running"
  /\ ticks < cap
  /\ LET c == Fetched.cur_core_id
         f == fetch_opcode(mem, cores[c].ip)
     IN /\ f.err = "None"
        /\ f.op = k
        /\ \E h \in block : \E r \in Outcomes(h) : Commit(c, k, k, r)

\* the fetch block returns the status of fetch_opcode
FetchHalt(cap) ==
  /\ pc = "running"
  /\ ticks < cap
  /\ LET c == sel_next_core(cores, cur_core_id)
         f == fetch_opcode(mem, cores[c].ip)
     IN /\ f.err # "None"
        /\ cur_core_id' = c
        /\ pc' = "returned"
        /\ status' = f.err
        /\ ticks' = ticks + 1
        /\ last' = [core |-> c, byte |-> 0 - 1, op |-> 0 - 1, prev |-> last_op[c],
                    err |-> f.err, tail |-> FALSE, before |-> cores[c],
                    call |-> TopCall(c), log |-> io_log]
        /\ after_hs' = FALSE
        /\ UNCHANGED <<mem, int_table, cores, io_table, int_enabled, io_log, loads,
                       runs, last_op, executed, only_nops, probe, callers, memop,
                       unit>>

fetch == pc = "running" /\ FetchHalt(MaxTicks)

l_no == pc = "running" /\ Tick(NO, {i_nop(Fetched)}, MaxTicks)

l_lw == pc = "running" /\ Tick(LW, {i_load_word(Fetched)}, MaxTicks)

l_lh == pc = "running" /\ Tick(LH, {i_load_half(Fetched)}, MaxTicks)

l_lb == pc = "running" /\ Tick(LB, {i_load_byte(Fetched)}, MaxTicks)

l_fw == pc = "running" /\ Tick(FW, {i_fetch_word(Fetched)}, MaxTicks)

l_fh == pc = "running" /\ Tick(FH, {i_fetch_half(Fetched)}, MaxTicks)

l_fb == pc = "running" /\ Tick(FB, {i_fetch_byte(Fetched)}, MaxTicks)

l_sw == pc = "running" /\ Tick(SW, {i_store_word(Fetched)}, MaxTicks)

l_sh == pc = "running" /\ Tick(SH, {i_store_half(Fetched)}, MaxTicks)

l_sb == pc = "running" /\ Tick(SB, {i_store_byte(Fetched)}, MaxTicks)

l_du == pc = "running" /\ Tick(DU, {i_dupe(Fetched)}, MaxTicks)

l_dr == pc = "running" /\ Tick(DR, {i_drop(Fetched)}, MaxTicks)

l_sp == pc = "running" /\ Tick(SP, {i_swap(Fetched)}, MaxTicks)

l_pu == pc = "running" /\ Tick(PU, {i_push_address(Fetched)}, MaxTicks)

l_po == pc = "running" /\ Tick(PO, {i_pop_address(Fetched)}, MaxTicks)

l_eq == pc = "running" /\ Tick(EQ, {i_equal(Fetched)}, MaxTicks)

l_ne == pc = "running" /\ Tick(NE, {i_not_equal(Fetched)}, MaxTicks)

l_lt == pc = "running" /\ Tick(LT, {i_less_than(Fetched)}, MaxTicks)

l_gt == pc = "running" /\ Tick(GT, {i_greater_than(Fetched)}, MaxTicks)

l_ad == pc = "running" /\ Tick(AD, {i_add(Fetched)}, MaxTicks)

l_su == pc = "running" /\ Tick(SU, {i_subtract(Fetched)}, MaxTicks)

l_mu == pc = "running" /\ Tick(MU, {i_multiply(Fetched)}, MaxTicks)

l_dm == pc = "running" /\ Tick(DM, {i_divide_remainder(Fetched)}, MaxTicks)

l_md == pc = "running" /\ Tick(MD, {i_multiply_divide_remainder(Fetched)}, MaxTicks)

l_an == pc = "running" /\ Tick(AN, {i_and(Fetched)}, MaxTicks)

l_or == pc = "running" /\ Tick(OR, {i_or(Fetched)}, MaxTicks)

l_xo == pc = "running" /\ Tick(XO, {i_xor(Fetched)}, MaxTicks)

l_nt == pc = "running" /\ Tick(NT, {i_not(Fetched)}, MaxTicks)

l_sl == pc = "running" /\ Tick(SL, {i_shift_left(Fetched)}, MaxTicks)

l_sr == pc = "running" /\ Tick(SR, {i_shift_right(Fetched)}, MaxTicks)

l_pa == pc = "running" /\ Tick(PA, {i_pack_bytes(Fetched)}, MaxTicks)

l_un == pc = "running" /\ Tick(UN, {i_unpack_bytes(Fetched)}, MaxTicks)

l_rl == pc = "running" /\ Tick(RL, {i_relative(Fetched)}, MaxTicks)

l_ca == pc = "running" /\ Tick(CA, {i_call(Fetched)}, MaxTicks)

l_cc == pc = "running" /\ Tick(CC, {i_conditional_call(Fetched)}, MaxTicks)

l_ju == pc = "running" /\ Tick(JU, {i_jump(Fetched)}, MaxTicks)

l_cj == pc = "running" /\ Tick(CJ, {i_conditional_jump(Fetched)}, MaxTicks)

l_re == pc = "running" /\ Tick(RE, {i_return(Fetched)}, MaxTicks)

l_cr == pc = "running" /\ Tick(CR, {i_conditional_return(Fetched)}, MaxTicks)

l_sv == pc = "running" /\ Tick(SV, {i_set_interrupt(Fetched)}, MaxTicks)

l_hi == pc = "running" /\ Tick(HI, {i_halt_interrupts(Fetched)}, MaxTicks)

l_si == pc = "running" /\ Tick(SI, {i_start_interrupts(Fetched)}, MaxTicks)

l_ti == pc = "running" /\ Tick(TI, {i_trigger_interrupt(Fetched)}, MaxTicks)

l_ii == pc = "running" /\ Tick(II, {i_invoke_io(Fetched)}, MaxTicks)

l_hs == pc = "running" /\ Tick(HS, {i_halt_system(Fetched)}, MaxTicks)

l_ic == pc = "running" /\ Tick(IC, {i_init_core(Fetched)}, MaxTicks)

l_ac == pc = "running" /\ Tick(AC, {i_activate_core(Fetched)}, MaxTicks)

l_pc == pc = "running" /\ Tick(PC, {i_pause_core(Fetched)}, MaxTicks)

l_sc == pc = "running" /\ Tick(SC, {i_suspend_cur_core(Fetched)}, MaxTicks)

l_rr == pc = "running" /\ Tick(RR, {i_read_register(Fetched)}, MaxTicks)

l_wr == pc = "running" /\ Tick(WR, {i_write_register(Fetched)}, MaxTicks)

l_cp == pc = "running" /\ Tick(CP, i_copy_block(Fetched), MaxTicks)

l_bc == pc = "running" /\ Tick(BC, {i_block_compare(Fetched)}, MaxTicks)

l_uu == pc = "running" /\ Tick(UU, {i_unsigned_mode(Fetched)}, MaxTicks)

l_ff == pc = "running" /\ Tick(FF, {i_float_mode(Fetched)}, MaxTicks)

\* goto *table[op_code] with op_code outside the table is undefined: the
\* process dies, or control lands on one of the handler blocks
l_undefined ==
  /\ pc = "running"
  /\ ticks < MaxTicks
  /\ LET c == sel_next_core(cores, cur_core_id)
         f == fetch_opcode(mem, cores[c].ip)
         vm == [TheVM EXCEPT !.cur_core_id = c]
     IN /\ f.err = "None"
        /\ f.op >= TABLE_SIZE
        /\ \/ Commit(c, f.op, 0 - 1, [err |-> UB, tail |-> FALSE, vm |-> vm])
           \/ \E k \in 0..(TABLE_SIZE - 1) : \E h \in Dispatch(k, vm) :
                \E r \in Outcomes(h) : Commit(c, f.op, k, r)

Next ==
  \/ Load
  \/ Run
  \/ fetch
  \/ l_no
  \/ l_lw
  \/ l_lh
  \/ l_lb
  \/ l_fw
  \/ l_fh
  \/ l_fb
  \/ l_sw
  \/ l_sh
  \/ l_sb
  \/ l_du
  \/ l_dr
  \/ l_sp
  \/ l_pu
  \/ l_po
  \/ l_eq
  \/ l_ne
  \/ l_lt
  \/ l_gt
  \/ l_ad
  \/ l_su
  \/ l_mu
  \/ l_dm
  \/ l_md
  \/ l_an
  \/ l_or
  \/ l_xo
  \/ l_nt
  \/ l_sl
  \/ l_sr
  \/ l_pa
  \/ l_un
  \/ l_rl
  \/ l_ca
  \/ l_cc
  \/ l_ju
  \/ l_cj
  \/ l_re
  \/ l_cr
  \/ l_sv
  \/ l_hi
  \/ l_si
  \/ l_ti
  \/ l_ii
  \/ l_hs
  \/ l_ic
  \/ l_ac
  \/ l_pc
  \/ l_sc
  \/ l_rr
  \/ l_wr
  \/ l_cp
  \/ l_bc
  \/ l_uu
  \/ l_ff
  \/ l_undefined

Spec == Init /\ [][Next]_vars

\* ------------------------------------------------------------------------
\* A fresh VM run with nothing loaded: the memory holds NO everywhere
\* ------------------------------------------------------------------------
fresh_no == pc = "running" /\ Tick(NO, {i_nop(Fetched)}, MEMORY_SIZE + 2)

fresh_fetch == pc = "running" /\ FetchHalt(MEMORY_SIZE + 2)

NextFresh ==
  \/ Run
  \/ fresh_no
  \/ fresh_fetch

\* interpret, once entered, goes on from one pass to the next
SpecFresh == Init /\ [][NextFresh]_vars /\ WF_vars(fresh_no \/ fresh_fetch)

\* ------------------------------------------------------------------------
\* A DataStack on its own: pushes and pops behind their guard, as the
\* handlers make them, and guard asked with any counts
\* ------------------------------------------------------------------------
probe_push ==
  /\ guard(probe.stack, 0, 1) = "None"
  /\ probe' = [NoProbe EXCEPT !.stack = push(probe.stack, probe.stack.top)]
  /\ UNCHANGED <<mem, int_table, cores, io_table, cur_core_id, int_enabled, io_log,
                 pc, status, ticks, loads, runs, last, last_op, executed, only_nops,
                 callers, memop,
                 unit, after_hs>>

probe_pop ==
  /\ guard(probe.stack, 1, 0) = "None"
  /\ probe' = [NoProbe EXCEPT !.stack = pop(probe.stack)]
  /\ UNCHANGED <<mem, int_table, cores, io_table, cur_core_id, int_enabled, io_log,
                 pc, status, ticks, loads, runs, last, last_op, executed, only_nops,
                 callers, memop,
                 unit, after_hs>>

probe_guard ==
  /\ ~probe.asked
  /\ \E pops \in 0..MaxGuardCount : \E pushes \in 0..MaxGuardCount :
       probe' = [stack |-> probe.stack, pops |-> pops, pushes |-> pushes,
                 result |-> guard(probe.stack, pops, pushes), asked |-> TRUE]
  /\ UNCHANGED <<mem, int_table, cores, io_table, cur_core_id, int_enabled, io_log,
                 pc, status, ticks, loads, runs, last, last_op, executed, only_nops,
                 callers, memop,
                 unit, after_hs>>

NextGuard ==
  \/ probe_push
  \/ probe_pop
  \/ probe_guard

SpecGuard == Init /\ [][NextGuard]_vars

\* ------------------------------------------------------------------------
\* A Memory on its own, as the unit tests use it: images loaded, then one
\* call of write_bytes and read_bytes, copy_block or compare_block at
\* addresses near either end of the memory
\* ------------------------------------------------------------------------
MemImages == {<<1, 2, 3, 4, 5, 6>>, <<9, 9, 9, 0, 9, 9>>}

MemSizes == {0, 3, 6, MEMORY_SIZE, MEMORY_SIZE + 1}

MemAddrs == 0..MaxBlock \cup (MEMORY_SIZE - MaxBlock)..(MEMORY_SIZE + 1)

MemValues == {CellBytes(120, 86, 52, 18), CellBytes(0, 0, 0, 128)}

\* the addresses at which two memories differ
Differ(m1, m2) == {a \in DOMAIN m1 \cup DOMAIN m2 : MemAt(m1, a) # MemAt(m2, a)}

mem_load ==
  /\ memop.kind \in {"none", "load"}
  /\ loads < MaxLoads
  /\ \E prg \in MemImages : \E n \in MemSizes :
       /\ mem' = load_program(mem, prg, n)
       /\ memop' = [kind |-> "load", prg |-> prg, n |-> n, before |-> mem,
                    cores |-> cores]
  /\ loads' = loads + 1
  /\ UNCHANGED <<int_table, cores, io_table, cur_core_id, int_enabled, io_log, pc,
                 status, ticks, runs, last, last_op, executed, only_nops, probe,
                 callers, unit, after_hs>>

\* write_bytes<BS>(addr, value), then read_bytes<BS>(addr)
mem_write_read ==
  /\ memop.kind \in {"none", "load"}
  /\ \E BS \in {1, 2, 4} : \E addr \in MemAddrs : \E value \in MemValues :
       LET w == write_bytes(mem, BS, addr, value)
           r == read_bytes(w.mem, BS, addr)
       IN /\ mem' = w.mem
          /\ memop' = [kind |-> "write", BS |-> BS, addr |-> addr, value |-> value,
                       before |-> mem, err |-> w.err, rerr |-> r.err, v |-> r.v]
  /\ UNCHANGED <<int_table, cores, io_table, cur_core_id, int_enabled, io_log, pc,
                 status, ticks, loads, runs, last, last_op, executed, only_nops,
                 probe, callers, unit, after_hs>>

mem_copy ==
  /\ memop.kind \in {"none", "load"}
  /\ \E len \in 0..MaxBlock : \E dst \in MemAddrs : \E orig \in MemAddrs :
       \E c \in copy_block(mem, len, dst, orig) :
         /\ mem' = c.mem
         /\ memop' = [kind |-> "copy", len |-> len, dst |-> dst, orig |-> orig,
                      before |-> mem, err |-> c.err]
  /\ UNCHANGED <<int_table, cores, io_table, cur_core_id, int_enabled, io_log, pc,
                 status, ticks, loads, runs, last, last_op, executed, only_nops,
                 probe, callers, unit, after_hs>>

mem_compare ==
  /\ memop.kind \in {"none", "load"}
  /\ \E len \in 0..MaxBlock : \E dst \in MemAddrs : \E orig \in MemAddrs :
       LET c == compare_block(mem, len, dst, orig)
       IN memop' = [kind |-> "compare", len |-> len, dst |-> dst, orig |-> orig,
                    before |-> mem, err |-> c.err, v |-> c.v]
  /\ UNCHANGED <<mem, int_table, cores, io_table, cur_core_id, int_enabled, io_log,
                 pc, status, ticks, loads, runs, last, last_op, executed, only_nops,
                 probe, callers, unit, after_hs>>

\* the host's io_write(addr, byte), then io_read(addr)
IoAddrs == {0, 1, IO_MEMORY_ADDRESS_END - 1, IO_MEMORY_ADDRESS_END,
            IO_MEMORY_ADDRESS_END + 1, MEMORY_SIZE - 1, MEMORY_SIZE}

IoBytes == {0, 1, 255}

mem_io ==
  /\ memop.kind \in {"none", "load"}
  /\ \E addr \in IoAddrs : \E byte \in IoBytes :
       LET w == io_write(TheVM, addr, byte)
           r == io_read([TheVM EXCEPT !.mem = w.mem], addr)
       IN /\ mem' = w.mem
          /\ memop' = [kind |-> "io", addr |-> addr, byte |-> byte, before |-> mem,
                       err |-> w.err, rerr |-> r.err, v |-> r.v]
  /\ UNCHANGED <<int_table, cores, io_table, cur_core_id, int_enabled, io_log, pc,
                 status, ticks, loads, runs, last, last_op, executed, only_nops,
                 probe, callers, unit, after_hs>>

NextMemory ==
  \/ mem_load
  \/ mem_write_read
  \/ mem_copy
  \/ mem_compare
  \/ mem_io

SpecMemory == Init /\ [][NextMemory]_vars

\* ------------------------------------------------------------------------
\* An AddressStack on its own, as the unit tests use it: any sequence of
\* push and pop.  The cell pushed tells the depth it is pushed at, or is
\* all ones at either end of the array; unit.held lists the cells whose
\* push returned None and that no pop has returned yet.
\* ------------------------------------------------------------------------
AddrCells(top) ==
  IF top \in {0, ADDRESS_STACK_SIZE - 1}
  THEN {top + 1, CellBytes(255, 255, 255, 255)}
  ELSE {top + 1}

UnitStack == IF unit.kind = "addrs" THEN unit.stack ELSE AddressStack

UnitHeld == IF unit.kind = "addrs" THEN unit.held ELSE << >>

stack_push ==
  /\ unit.kind \in {"none", "addrs"}
  /\ \E value \in AddrCells(UnitStack.top) :
       LET r == addrs_push(UnitStack, value)
       IN unit' = [kind |-> "addrs", call |-> "push", arg |-> value, err |-> r.err,
                   v |-> ZeroCell, stack |-> r.stack, before |-> UnitStack,
                   held_before |-> UnitHeld,
                   held |-> IF r.err = "None" THEN Append(UnitHeld, value)
                            ELSE UnitHeld]
  /\ UNCHANGED <<mem, int_table, cores, io_table, cur_core_id, int_enabled, io_log,
                 pc, status, ticks, loads, runs, last, last_op, executed, only_nops,
                 probe, callers, memop,
                 after_hs>>

stack_pop ==
  /\ unit.kind \in {"none", "addrs"}
  /\ LET r == addrs_pop(UnitStack)
     IN unit' = [kind |-> "addrs", call |-> "pop", arg |-> ZeroCell, err |-> r.err,
                 v |-> r.v, stack |-> r.stack, before |-> UnitStack,
                 held_before |-> UnitHeld,
                 held |-> IF r.err = "None"
                          THEN SubSeq(UnitHeld, 1, Len(UnitHeld) - 1)
                          ELSE UnitHeld]
  /\ UNCHANGED <<mem, int_table, cores, io_table, cur_core_id, int_enabled, io_log,
                 pc, status, ticks, loads, runs, last, last_op, executed, only_nops,
                 probe, callers, memop,
                 after_hs>>

NextStack ==
  \/ stack_push
  \/ stack_pop

SpecStack == Init /\ [][NextStack]_vars

\* ------------------------------------------------------------------------
\* Handlers called one after the other on core 0 of a fresh VM whose data
\* stack holds the given cells, the last of them on top
\* ------------------------------------------------------------------------
StackOf(cells) ==
  [arr |-> [i \in 0..(DATA_STACK_SIZE - 1) |->
              IF i < Len(cells) THEN cells[i + 1] ELSE ZeroCell],
   top |-> Len(cells)]

OnCore(data, op_mode) ==
  [TheVM EXCEPT !.cur_core_id = 0,
                !.cores[0] = [cores[0] EXCEPT !.data = data, !.op_mode = op_mode]]

\* the cells PA is given: bytes, and two cells that are more than a byte
PackCells == {0, 1, 255, 263, CellBytes(255, 255, 255, 255)}

\* the cells beneath them: none, one, or as many as leave room for three
\* or for no more cells
PackDepths == {0, 1, DATA_STACK_SIZE - 5, DATA_STACK_SIZE - 4}

\* PA, then UN if the PA returned None
pack_unpack ==
  /\ unit.kind = "none"
  /\ \E a \in PackCells : \E b \in PackCells : \E c \in PackCells :
       \E d \in PackCells : \E n \in PackDepths :
         LET data == StackOf(Rep(<<9>>, n) \o <<a, b, c, d>>)
             pa == i_pack_bytes(OnCore(data, "SIGNED"))
             un == IF pa.err = "None" THEN i_unpack_bytes(pa.vm) ELSE pa
         IN unit' = [kind |-> "pack", before |-> data, pa |-> pa.err,
                     packed |-> Cur(pa.vm).data, un |-> un.err,
                     after |-> Cur(un.vm).data]
  /\ UNCHANGED <<mem, int_table, cores, io_table, cur_core_id, int_enabled, io_log,
                 pc, status, ticks, loads, runs, last, last_op, executed, only_nops,
                 probe, callers, memop,
                 after_hs>>

\* A RegisterBank on its own, as the unit tests use it: any sequence of
\* write, read and clear.  unit.written tells, for each id, the value of
\* the last write that returned None since construction or clear.
RegIds == {0, 1, REGISTER_BANK_SIZE - 1, REGISTER_BANK_SIZE, REGISTER_BANK_SIZE + 1,
           CellBytes(255, 255, 255, 255)}

RegValues == {42, CellBytes(255, 255, 255, 255)}

Unwritten == [id \in RegIds |-> << >>]

UnitBank == IF unit.kind = "regs" THEN unit.bank ELSE RegisterBank

UnitWritten == IF unit.kind = "regs" THEN unit.written ELSE Unwritten

bank_write ==
  /\ unit.kind \in {"none", "regs"}
  /\ \E id \in RegIds : \E value \in RegValues :
       LET w == regs_write(UnitBank, id, value)
       IN unit' = [kind |-> "regs", call |-> "write", id |-> id, value |-> value,
                   err |-> w.err, v |-> ZeroCell, bank |-> w.regs, before |-> UnitBank,
                   written_before |-> UnitWritten,
                   written |-> IF w.err = "None"
                               THEN [UnitWritten EXCEPT ![id] = <<value>>]
                               ELSE UnitWritten]
  /\ UNCHANGED <<mem, int_table, cores, io_table, cur_core_id, int_enabled, io_log,
                 pc, status, ticks, loads, runs, last, last_op, executed, only_nops,
                 probe, callers, memop,
                 after_hs>>

bank_read ==
  /\ unit.kind \in {"none", "regs"}
  /\ \E id \in RegIds :
       LET r == regs_read(UnitBank, id)
       IN unit' = [kind |-> "regs", call |-> "read", id |-> id, value |-> ZeroCell,
                   err |-> r.err, v |-> r.v, bank |-> UnitBank, before |-> UnitBank,
                   written_before |-> UnitWritten, written |-> UnitWritten]
  /\ UNCHANGED <<mem, int_table, cores, io_table, cur_core_id, int_enabled, io_log,
                 pc, status, ticks, loads, runs, last, last_op, executed, only_nops,
                 probe, callers, memop,
                 after_hs>>

bank_clear ==
  /\ unit.kind = "regs"
  /\ unit' = [kind |-> "regs", call |-> "clear", id |-> ZeroCell, value |-> ZeroCell,
              err |-> "None", v |-> ZeroCell, bank |-> regs_clear(UnitBank),
              before |-> UnitBank, written_before |-> UnitWritten,
              written |-> Unwritten]
  /\ UNCHANGED <<mem, int_table, cores, io_table, cur_core_id, int_enabled, io_log,
                 pc, status, ticks, loads, runs, last, last_op, executed, only_nops,
                 probe, callers, memop,
                 after_hs>>

\* WR, then RR if the WR returned None, on a core whose stack holds the
\* id, the value and the id again
write_read_register ==
  /\ unit.kind = "none"
  /\ \E id \in RegIds : \E value \in RegValues \cup {ZeroCell} :
       LET data == StackOf(<<id, value, id>>)
           wr == i_write_register(OnCore(data, "SIGNED"))
           rr == IF wr.err = "None" THEN i_read_register(wr.vm) ELSE wr
       IN unit' = [kind |-> "wr rr", id |-> id, value |-> value, wr |-> wr.err,
                   rr |-> rr.err, regs |-> Cur(rr.vm).regs, after |-> Cur(rr.vm).data]
  /\ UNCHANGED <<mem, int_table, cores, io_table, cur_core_id, int_enabled, io_log,
                 pc, status, ticks, loads, runs, last, last_op, executed, only_nops,
                 probe, callers, memop,
                 after_hs>>

\* AD, SU or MU in either integer mode on a core holding l and r
ArithCells == {0, 1, 2, 3, 65536, CellBytes(255, 255, 255, 127),
               CellBytes(0, 0, 0, 128), CellBytes(255, 255, 255, 255)}

arith ==
  /\ unit.kind = "none"
  /\ \E k \in {AD, SU, MU} : \E op_mode \in {"SIGNED", "UNSIGNED"} :
       \E l \in ArithCells : \E r \in ArithCells :
         LET vm == OnCore(StackOf(<<l, r>>), op_mode)
             h == CASE k = AD -> i_add(vm)
                    [] k = SU -> i_subtract(vm)
                    [] k = MU -> i_multiply(vm)
         IN \E o \in Outcomes(h) :
              unit' = [kind |-> "arith", op |-> k, op_mode |-> op_mode, l |-> l,
                       r |-> r, err |-> o.err, after |-> Cur(o.vm).data]
  /\ UNCHANGED <<mem, int_table, cores, io_table, cur_core_id, int_enabled, io_log,
                 pc, status, ticks, loads, runs, last, last_op, executed, only_nops,
                 probe, callers, memop,
                 after_hs>>

\* sel_next_core on a VM of CS cores with any active flags and any
\* current core
select_core ==
  /\ unit.kind = "none"
  /\ \E CS \in 1..MaxCores : \E active \in [0..(CS - 1) -> BOOLEAN] :
       \E cur \in 0..(CS - 1) :
         LET cs == [i \in 0..(CS - 1) |-> [Core EXCEPT !.active = active[i]]]
         IN unit' = [kind |-> "select", CS |-> CS, active |-> active, cur |-> cur,
                     next |-> sel_next_core_CS(cs, cur, CS)]
  /\ UNCHANGED <<mem, int_table, cores, io_table, cur_core_id, int_enabled, io_log,
                 pc, status, ticks, loads, runs, last, last_op, executed, only_nops,
                 probe, callers, memop,
                 after_hs>>

NextUnit ==
  \/ pack_unpack
  \/ select_core
  \/ arith
  \/ bank_write
  \/ bank_read
  \/ bank_clear
  \/ write_read_register

SpecUnit == Init /\ [][NextUnit]_vars

\* ------------------------------------------------------------------------
\* Programs that never return: interpret goes round for ever.  The
\* counters of the history stop at MaxTicks.
\* ------------------------------------------------------------------------
LoopPrograms ==
  {
   \* core 0 initialises core 1 at 11, activates it and goes round LB 8, JU
   \* at 8; core 1 would find HS at 11
   Lb(11) \o Lb(1) \o <<IC>> \o Lb(1) \o <<AC>> \o Lb(8) \o <<JU, HS>>,
   \* core 0 initialises core 1 at 12, activates it and suspends itself;
   \* core 1 goes round LB 12, JU at 12
   Lb(12) \o Lb(1) \o <<IC>> \o Lb(1) \o <<AC, SC, NO, NO, NO>> \o Lb(12) \o <<JU>>,
   \* the same, and core 1 activates core 0 before it goes round at 15;
   \* core 0 goes round LB 9, JU at 9
   Lb(12) \o Lb(1) \o <<IC>> \o Lb(1) \o <<AC, SC>> \o Lb(9) \o <<JU>>
     \o Lb(0) \o <<AC>> \o Lb(15) \o <<JU>>,
   \* core 0 suspends itself, the only active core, and goes round at 1
   <<SC>> \o Lb(1) \o <<JU>>,
   \* a jump to the last byte of the memory, NO, and the fetch beyond it
   Lw(254, 255, 0, 0) \o <<JU>>
  }

\* VM::load_program of one of them into the fresh VM
loop_load ==
  /\ pc = "idle"
  /\ loads = 0
  /\ \E prg \in LoopPrograms : mem' = load_program(mem, prg, Len(prg))
  /\ loads' = loads + 1
  /\ after_hs' = FALSE
  /\ UNCHANGED <<int_table, cores, io_table, cur_core_id, int_enabled, io_log,
                 pc, status, ticks, runs, last, last_op, executed, only_nops, probe,
                 callers, memop, unit>>

\* a counter of the history, which stops at MaxTicks
Count(n) == IF n < MaxTicks THEN n + 1 ELSE n

\* one pass of interpret: sel_next_core, fetch_opcode, goto *table[op_code]
\* and the handler block; these images hold no byte outside the table
loop_pass ==
  /\ pc = "running"
  /\ LET c == Fetched.cur_core_id
         f == fetch_opcode(mem, cores[c].ip)
     IN /\ f.err = "None"
        /\ f.op < TABLE_SIZE
        /\ \E h \in Dispatch(f.op, Fetched) : \E r \in Outcomes(h) :
             /\ mem' = r.vm.mem
             /\ int_table' = r.vm.int_table
             /\ cores' = r.vm.cores
             /\ io_table' = r.vm.io_table
             /\ cur_core_id' = r.vm.cur_core_id
             /\ int_enabled' = r.vm.int_enabled
             /\ io_log' = r.vm.io_log
             /\ pc' = IF r.err = "None" THEN "running"
                      ELSE IF r.err \in Error THEN "returned" ELSE "stopped"
             /\ status' = r.err
             /\ ticks' = Count(ticks)
             /\ last' = [core |-> c, byte |-> f.op, op |-> f.op, prev |-> last_op[c],
                         err |-> r.err, tail |-> r.tail, before |-> cores[c],
                         call |-> NoCall, log |-> io_log]
             /\ last_op' = [last_op EXCEPT ![c] = f.op]
             /\ executed' = [executed EXCEPT ![c] = Count(@)]
             /\ only_nops' = (only_nops /\ f.op = NO)
             /\ after_hs' = (f.op = HS /\ r.err = "SystemHalt")
             /\ UNCHANGED <<loads, runs, probe, callers, memop, unit>>

\* the fetch block returns the status of fetch_opcode
loop_fetch == pc = "running" /\ FetchHalt(MaxTicks + 1)

NextLoop ==
  \/ loop_load
  \/ Run
  \/ loop_pass
  \/ loop_fetch

\* interpret, once entered, goes on from one pass to the next
SpecLoop == Init /\ [][NextLoop]_vars /\ WF_vars(loop_pass \/ loop_fetch)

\* ------------------------------------------------------------------------
\* Claims
\* ------------------------------------------------------------------------

\* C1: in a run that begins with both cores active and executes only NO,
\* the cores alternate from core 0: after N instructions core 0 has
\* executed ceil(N / 2) of them and core 1 floor(N / 2).
C1_CoresAlternate ==
  only_nops =>
    LET N == executed[0] + executed[1]
    IN /\ executed[0] = (N + 1) \div 2
       /\ executed[1] = N \div 2

\* C2: when a handler returns a status other than None, run returns at
\* once with that status, and the executing core's ip, op_mode and
\* addr_mode are those the fetch block found.
C2_ErrorLeavesIpAndModes ==
  (last.op >= 0 /\ last.err \in Error \ {"None"}) =>
    /\ pc = "returned"
    /\ status = last.err
    /\ cores[last.core].ip = last.before.ip
    /\ cores[last.core].op_mode = last.before.op_mode
    /\ cores[last.core].addr_mode = last.before.addr_mode

\* C2 witness: DM dividing by zero in UNSIGNED mode has returned.
C2_Witness ==
  /\ last.op = DM
  /\ last.err = "DivisionByZero"
  /\ last.before.op_mode = "UNSIGNED"
  /\ pc = "returned"

\* C3 (amended): after an instruction other than UU and FF whose handler
\* ran to its last statement (HS has none to run to, and a guard failure,
\* an operation error or SL/SR met in FLOAT mode returns before it), the
\* executing core's op_mode is SIGNED.
C3_TailResetsOpMode ==
  (last.op >= 0 /\ last.tail /\ last.op \notin {UU, FF}) =>
    cores[last.core].op_mode = "SIGNED"

\* C3 witness: LT ran in UNSIGNED mode and left the core SIGNED.
C3_Witness ==
  /\ last.op = LT
  /\ last.tail
  /\ last.before.op_mode = "UNSIGNED"
  /\ cores[last.core].op_mode = "SIGNED"

\* C3 as stated: after any instruction other than UU and FF the executing
\* core's op_mode is SIGNED.
C3_AnyInstructionResetsOpMode ==
  (last.op >= 0 /\ last.op \notin {UU, FF}) => cores[last.core].op_mode = "SIGNED"

\* C4 (amended): UU and FF set the core's op_mode, advance its ip by one
\* and reset nothing; the next instruction of that core finds the mode
\* set; and after that instruction, if it is not UU or FF and its handler
\* ran to its last statement, the op_mode is SIGNED again.
C4_ModeLastsOneInstruction ==
  LET ModeOf(op) == IF op = UU THEN "UNSIGNED" ELSE "FLOAT"
      core == cores[last.core]
  IN /\ last.op \in {UU, FF} =>
          /\ last.tail
          /\ core = [last.before EXCEPT !.ip = AddU32(last.before.ip, 1),
                                        !.op_mode = ModeOf(last.op)]
     /\ (last.op >= 0 /\ last.prev \in {UU, FF}) =>
          last.before.op_mode = ModeOf(last.prev)
     /\ (last.op >= 0 /\ last.prev \in {UU, FF} /\ last.tail /\ last.op \notin {UU, FF}) =>
          core.op_mode = "SIGNED"

\* C4 witness: LT straight after UU compared 0x80000001 with 1 as
\* unsigned numbers (false; as signed numbers the answer is true) and
\* left the core SIGNED.
C4_Witness ==
  /\ last.prev = UU
  /\ last.op = LT
  /\ last.tail
  /\ Peek(last.before.data, 1) = CellBytes(1, 0, 0, 128)
  /\ Peek(last.before.data, 0) = CellBytes(1, 0, 0, 0)
  /\ Peek(cores[last.core].data, 0) = BoolCell(FALSE)
  /\ cores[last.core].op_mode = "SIGNED"

\* C4 as stated: after the instruction that follows UU or FF on the same
\* core, the op_mode is SIGNED again.
C4_NextInstructionResetsOpMode ==
  (last.op >= 0 /\ last.prev \in {UU, FF}) => cores[last.core].op_mode = "SIGNED"

\* C5 (amended): RL sets addr_mode RELATIVE.  An instruction met in
\* RELATIVE mode leaves DIRECT when it is CA, CC, JU, CJ, RE or CR and its
\* handler ran to its last statement, or IC initialising the executing
\* core; every other one leaves RELATIVE.  CA and JU, and CC and CJ with a
\* true condition, go to t + ip.
C5_RelativeUntilJumpOrReturn ==
  LET core == cores[last.core]
      t == Peek(last.before.data, 0)
      c == Peek(last.before.data, 1)
      resets == \/ last.tail /\ last.op \in {CA, CC, JU, CJ, RE, CR}
                \/ last.tail /\ last.op = IC /\ t = last.core
      jumps == \/ last.tail /\ last.op \in {CA, JU}
               \/ last.tail /\ last.op \in {CC, CJ} /\ to_bool(c)
  IN /\ last.op = RL => core.addr_mode = "RELATIVE"
     /\ (last.op >= 0 /\ last.before.addr_mode = "RELATIVE") =>
          /\ core.addr_mode = IF resets THEN "DIRECT" ELSE "RELATIVE"
          /\ jumps => core.ip = AddU32(t, last.before.ip)

\* C5 witness: CA met RELATIVE mode two instructions after RL, went to
\* t + ip and left DIRECT.
C5_Witness ==
  /\ last.op = CA
  /\ last.tail
  /\ last.prev = LB
  /\ last.before.addr_mode = "RELATIVE"
  /\ cores[last.core].ip = AddU32(Peek(last.before.data, 0), last.before.ip)
  /\ cores[last.core].ip # Peek(last.before.data, 0)
  /\ cores[last.core].addr_mode = "DIRECT"

\* C5 as stated: an instruction other than CA, CC, JU and CJ (RE and CR
\* among them) met in RELATIVE mode leaves RELATIVE.
C5_OnlyJumpsLeaveRelative ==
  (last.op >= 0 /\ last.before.addr_mode = "RELATIVE" /\ last.op \notin {CA, CC, JU, CJ}) =>
    cores[last.core].addr_mode = "RELATIVE"

\* C6: in every reachable state each core's data-stack top lies in
\* 0..DATA_STACK_SIZE and its address-stack top in 0..ADDRESS_STACK_SIZE.
C6_StackTopsInRange ==
  \A c \in CoreIds :
    /\ cores[c].data.top \in 0..DATA_STACK_SIZE
    /\ cores[c].addrs.top \in 0..ADDRESS_STACK_SIZE

\* C6 witness: DU met a full data stack and returned DataStackOverflow.
C6_Witness ==
  /\ last.op = DU
  /\ last.err = "DataStackOverflow"
  /\ last.before.data.top = DATA_STACK_SIZE
  /\ cores[last.core].data.top = DATA_STACK_SIZE

\* C7 (amended): guard(p, q) on a stack of depth top returns
\* DataStackOverflow if top + q > DATA_STACK_SIZE, otherwise
\* DataStackUnderflow if top < p, otherwise None.
C7_GuardTestsOverflowFirst ==
  probe.asked =>
    probe.result =
      IF probe.stack.top + probe.pushes > DATA_STACK_SIZE THEN "DataStackOverflow"
      ELSE IF probe.stack.top < probe.pops THEN "DataStackUnderflow"
      ELSE "None"

\* C7 witness: guard asked for more pops than the stack holds and more
\* pushes than it has room for answered DataStackOverflow.
C7_Witness ==
  /\ probe.asked
  /\ probe.stack.top > 0
  /\ probe.stack.top < probe.pops
  /\ probe.stack.top + probe.pushes > DATA_STACK_SIZE
  /\ probe.result = "DataStackOverflow"

\* C7 as stated: guard(p, q) returns DataStackUnderflow if top < p,
\* DataStackOverflow if top + q > DATA_STACK_SIZE, and None otherwise.
C7_GuardUnderflowWheneverShort ==
  probe.asked =>
    /\ probe.stack.top < probe.pops => probe.result = "DataStackUnderflow"
    /\ probe.stack.top + probe.pushes > DATA_STACK_SIZE =>
         probe.result = "DataStackOverflow"
    /\ (probe.stack.top >= probe.pops
          /\ probe.stack.top + probe.pushes <= DATA_STACK_SIZE) =>
         probe.result = "None"

\* C8: a pass whose selected core has its ip at MEMORY_SIZE or beyond
\* returns SystemHalt and enters no handler, and a handler is entered only
\* with the ip below MEMORY_SIZE; a fresh VM with nothing loaded, once
\* run, returns with core 0's ip equal to MEMORY_SIZE.
C8_FreshRunHaltsAtEnd ==
  /\ [](last.core >= 0 /\ ~Below(last.before.ip, MEMORY_SIZE) =>
          /\ last.op = 0 - 1
          /\ pc = "returned"
          /\ status = "SystemHalt"
          /\ cores = [cores EXCEPT ![last.core] = last.before])
  /\ (pc = "running") ~>
       (pc = "returned" /\ status = "SystemHalt" /\ cores[0].ip = MEMORY_SIZE)

\* C8 witness: the fresh VM has returned after MEMORY_SIZE NO on core 0.
C8_Witness ==
  /\ pc = "returned"
  /\ status = "SystemHalt"
  /\ loads = 0
  /\ executed[0] = MEMORY_SIZE
  /\ cores[0].ip = MEMORY_SIZE

\* C9: SL or SR met in FLOAT mode with its two operands on the stack makes
\* run return InvalidFloatOperation with the ip at the SL or SR.
C9_FloatShiftReturnsError ==
  (last.op \in {SL, SR} /\ last.before.op_mode = "FLOAT" /\ last.before.data.top >= 2) =>
    /\ pc = "returned"
    /\ status = "InvalidFloatOperation"
    /\ cores[last.core].ip = last.before.ip

\* C10: CC pops t, then c.  With c true it pushes ip + 4 on the address
\* stack and goes where CA would; with c false it pushes nothing and
\* advances the ip by one.
C10_ConditionalCall ==
  (last.op = CC /\ last.before.data.top >= 2) =>
    LET core == cores[last.core]
        t == Peek(last.before.data, 0)
        c == Peek(last.before.data, 1)
    IN IF to_bool(c)
       THEN \/ last.err = "AddressStackOverflow"
            \/ /\ last.err = "None"
               /\ core.data.top = last.before.data.top - 2
               /\ core.addrs.top = last.before.addrs.top + 1
               /\ core.addrs.arr[core.addrs.top - 1] = AddU32(last.before.ip, 4)
               /\ core.ip = Target(last.before, t)
       ELSE /\ last.err = "None"
            /\ core.data.top = last.before.data.top - 2
            /\ core.addrs = last.before.addrs
            /\ core.ip = AddU32(last.before.ip, 1)

\* C11: CA pops t, pushes ip + 4 on the address stack and goes to t in
\* DIRECT mode and to t + ip in RELATIVE mode; JU and CJ with a true
\* condition go to the same place and leave the address stack alone; CJ
\* with a false condition advances the ip by 4.
C11_CallAndJumps ==
  LET core == cores[last.core]
      before == last.before
      t == Peek(before.data, 0)
      c == Peek(before.data, 1)
      goal == IF before.addr_mode = "DIRECT" THEN t ELSE AddU32(t, before.ip)
  IN /\ (last.op = CA /\ before.data.top >= 1
           /\ before.addrs.top < ADDRESS_STACK_SIZE) =>
          /\ last.err = "None"
          /\ core.data.top = before.data.top - 1
          /\ core.addrs.top = before.addrs.top + 1
          /\ core.addrs.arr[before.addrs.top] = AddU32(before.ip, 4)
          /\ core.ip = goal
     /\ (last.op = JU /\ before.data.top >= 1) =>
          /\ last.err = "None"
          /\ core.data.top = before.data.top - 1
          /\ core.addrs = before.addrs
          /\ core.ip = goal
     /\ (last.op = CJ /\ before.data.top >= 2) =>
          /\ last.err = "None"
          /\ core.data.top = before.data.top - 2
          /\ core.addrs = before.addrs
          /\ core.ip = IF to_bool(c) THEN goal ELSE AddU32(before.ip, 4)

\* C11 witness: CA in DIRECT mode went to t and left ip + 4 on top of the
\* address stack.
C11_Witness ==
  /\ last.op = CA
  /\ last.err = "None"
  /\ last.before.addr_mode = "DIRECT"
  /\ cores[last.core].ip = Peek(last.before.data, 0)
  /\ cores[last.core].ip # AddU32(last.before.ip, 4)
  /\ cores[last.core].addrs.arr[last.before.addrs.top] = AddU32(last.before.ip, 4)

C13_SiblingKeepsInitAddress ==
  (loads = 1 /\ runs = 1 /\ mem = load_program(Memory, SiblingProgram, Len(SiblingProgram))) =>
    /\ executed[1] = 0
    /\ pc # "stopped"
    /\ pc = "returned" =>
         /\ status = "SystemHalt"
         /\ cores[1].active
         /\ cores[1].ip = 137
         /\ cores[0].ip = 8

\* C13 witness: that run has returned, six instructions after it began.
C13_Witness ==
  /\ loads = 1
  /\ runs = 1
  /\ mem = load_program(Memory, SiblingProgram, Len(SiblingProgram))
  /\ pc = "returned"
  /\ executed[0] = 6
  /\ last.op = HS
  /\ last.prev = AC
  /\ cores[1].active

\* C14: IC pops id, then addr, and leaves cores[id] inactive at addr, SIGNED
\* and DIRECT, with both stacks empty and every register zero, whichever
\* core id names, the executing one included; the executing core's ip
\* advances by one.
C14_InitCoreResets ==
  LET before == last.before
      id == Peek(before.data, 0)
      addr == Peek(before.data, 1)
  IN (last.op = IC /\ before.data.top >= 2 /\ Below(id, CORE_COUNT)) =>
       /\ last.err = "None"
       /\ ~cores[Lo(id)].active
       /\ cores[Lo(id)].ip = addr
       /\ cores[Lo(id)].op_mode = "SIGNED"
       /\ cores[Lo(id)].addr_mode = "DIRECT"
       /\ cores[Lo(id)].data.top = 0
       /\ cores[Lo(id)].addrs.top = 0
       /\ cores[Lo(id)].regs = RegisterBank
       /\ cores[last.core].ip = AddU32(before.ip, 1)

\* C15: call(id) with id >= IO_TABLE_SIZE, or with a null slot id, runs no
\* callback and reads no slot, so II with such an id goes on with status
\* None and the callbacks run so far unchanged; with a callback in slot
\* id < IO_TABLE_SIZE it runs that callback once.
C15_CallOnlyInsideTable ==
  LET id == Peek(last.before.data, 0)
  IN (last.op = II /\ last.before.data.top >= 1) =>
       /\ last.err = "None"
       /\ io_log = IF Below(id, IO_TABLE_SIZE) /\ io_table[Lo(id)]
                   THEN Append(last.log, Lo(id))
                   ELSE last.log

\* C16: II with the id of a slot holding a callback pops the id, runs that
\* callback once and advances the ip by one with status None; the first
\* run of LB id, II for id = 0..15 and then HS, on a full table, returns
\* SystemHalt with the sixteen callbacks run once each in id order and
\* core 0 at 48.
C16_InvokeIoRunsEachOnce ==
  LET core == cores[last.core]
      before == last.before
      id == Peek(before.data, 0)
  IN /\ (last.op = II /\ before.data.top >= 1 /\ Below(id, IO_TABLE_SIZE)
           /\ io_table[Lo(id)]) =>
          /\ last.err = "None"
          /\ io_log = Append(last.log, Lo(id))
          /\ core.data.top = before.data.top - 1
          /\ core.ip = AddU32(before.ip, 1)
     /\ (loads = 1 /\ runs = 1 /\ io_table = IoTable
           /\ mem = load_program(Memory, IoProgram, Len(IoProgram))) =>
          /\ pc # "stopped"
          /\ executed[1] = 0
          /\ pc = "returned" =>
               /\ status = "SystemHalt"
               /\ io_log = [i \in 1..IO_TABLE_SIZE |-> i - 1]
               /\ cores[0].ip = 48

\* C16 witness: that run has returned after its sixteenth II ran the
\* callback of slot 15.
C16_Witness ==
  /\ loads = 1
  /\ runs = 1
  /\ io_table = IoTable
  /\ mem = load_program(Memory, IoProgram, Len(IoProgram))
  /\ pc = "returned"
  /\ last.op = HS
  /\ Len(io_log) = IO_TABLE_SIZE
  /\ io_log[IO_TABLE_SIZE] = 15

\* C17: compare_block(len, dst, orig) returns IllegalMemoryAddress when
\* either range leaves the memory, and otherwise Cell(true) if the two
\* ranges hold the same bytes and Cell(false) if they do not.
C17_CompareBlockTellsEqual ==
  memop.kind = "compare" =>
    IF memop.dst + memop.len > MEMORY_SIZE \/ memop.orig + memop.len > MEMORY_SIZE
    THEN memop.err = "IllegalMemoryAddress"
    ELSE /\ memop.err = "None"
         /\ memop.v = BoolCell(\A i \in 0..(memop.len - 1) :
                                 MemAt(mem, memop.dst + i) = MemAt(mem, memop.orig + i))

\* C18: copy_block(len, dst, orig) returns IllegalMemoryAddress and leaves
\* the memory alone when either range leaves it; otherwise every byte of
\* [dst, dst + len) holds what the byte of [orig, orig + len) at the same
\* offset held before the call, overlapping ranges included, and no
\* other byte changes.
C18_CopyBlockOverlapSafe ==
  memop.kind = "copy" =>
    IF memop.dst + memop.len > MEMORY_SIZE \/ memop.orig + memop.len > MEMORY_SIZE
    THEN /\ memop.err = "IllegalMemoryAddress"
         /\ mem = memop.before
    ELSE /\ memop.err = "None"
         /\ \A i \in 0..(memop.len - 1) :
              MemAt(mem, memop.dst + i) = MemAt(memop.before, memop.orig + i)
         /\ Differ(mem, memop.before) \subseteq memop.dst..(memop.dst + memop.len - 1)

\* C19: write_bytes<N>(addr, v) with addr + N <= MEMORY_SIZE changes no
\* byte outside [addr, addr + N), and read_bytes<N>(addr) then returns the
\* low N bytes of v with zeros above them; with addr + N > MEMORY_SIZE
\* both return IllegalMemoryAddress and the memory is as it was.
C19_WriteThenRead ==
  memop.kind = "write" =>
    IF memop.addr + memop.BS <= MEMORY_SIZE
    THEN /\ memop.err = "None"
         /\ memop.rerr = "None"
         /\ Differ(mem, memop.before) \subseteq memop.addr..(memop.addr + memop.BS - 1)
         /\ \A i \in 0..3 :
              ByteOf(memop.v, i) = IF i < memop.BS THEN ByteOf(memop.value, i) ELSE 0
    ELSE /\ memop.err = "IllegalMemoryAddress"
         /\ memop.rerr = "IllegalMemoryAddress"
         /\ mem = memop.before

\* C19 witness: write_bytes<2> of 0x12345678 at the last two bytes of the
\* memory, read back as 0x5678.
C19_Witness ==
  /\ memop.kind = "write"
  /\ memop.BS = 2
  /\ memop.addr = MEMORY_SIZE - 2
  /\ memop.err = "None"
  /\ memop.value = CellBytes(120, 86, 52, 18)
  /\ memop.v = CellBytes(120, 86, 0, 0)
  /\ MemAt(mem, MEMORY_SIZE - 1) = 86

\* C20: load_program(bs, n) with n <= MEMORY_SIZE leaves bs[0..n) in
\* memory[0..n) and every byte from n on, and every core, as it was; with
\* n > MEMORY_SIZE it leaves the whole memory as it was.
C20_LoadProgramCopiesPrefix ==
  memop.kind = "load" =>
    LET byte(a) == IF a < Len(memop.prg) THEN memop.prg[a + 1] ELSE 0
    IN /\ cores = memop.cores
       /\ IF memop.n <= MEMORY_SIZE
          THEN /\ \A a \in DOMAIN mem \cup 0..(Len(memop.prg) - 1) :
                    a < memop.n => MemAt(mem, a) = byte(a)
               /\ \A a \in Differ(mem, memop.before) : a < memop.n
          ELSE mem = memop.before

\* C20 witness: three bytes loaded over an image of six left the last
\* three of the six in place.
C20_Witness ==
  /\ memop.kind = "load"
  /\ memop.n = 3
  /\ memop.prg = <<9, 9, 9, 0, 9, 9>>
  /\ memop.before = load_program(Memory, <<1, 2, 3, 4, 5, 6>>, 6)
  /\ mem = (0 :> 9) @@ (1 :> 9) @@ (2 :> 9) @@ (3 :> 4) @@ (4 :> 5) @@ (5 :> 6)

\* C21: the host's io_write(addr, b) and io_read(addr) succeed exactly for
\* addr in [0, 192): the write stores b at memory[addr] and changes no other
\* byte, and the read that follows returns b; for every other addr both
\* return IllegalMemoryAddress and the memory is unchanged.
C21_IoWindow ==
  memop.kind = "io" =>
    IF memop.addr \in 0..191
    THEN /\ memop.err = "None"
         /\ memop.rerr = "None"
         /\ memop.v = memop.byte
         /\ MemAt(mem, memop.addr) = memop.byte
         /\ Differ(mem, memop.before) \subseteq {memop.addr}
    ELSE /\ memop.err = "IllegalMemoryAddress"
         /\ memop.rerr = "IllegalMemoryAddress"
         /\ mem = memop.before

\* C21 witness: 255 written over the 1 at address 0 of a loaded image and
\* read back; the image's next byte is still there.
C21_Witness ==
  /\ memop.kind = "io"
  /\ memop.addr = 0
  /\ memop.byte = 255
  /\ MemAt(memop.before, 0) = 1
  /\ memop.v = 255
  /\ MemAt(mem, 0) = 255
  /\ MemAt(mem, 1) = 2

\* C22: AddressStack.push returns AddressStackOverflow and leaves the stack
\* unchanged when it already holds 128 cells, otherwise it stores the cell
\* and returns None; pop returns AddressStackUnderflow and leaves the stack
\* unchanged when empty, otherwise it removes and returns the most
\* recently pushed cell.
C22_AddressStackBounds ==
  unit.kind = "addrs" =>
    LET n == Len(unit.held_before)
    IN /\ (unit.call = "push" /\ n = ADDRESS_STACK_SIZE) =>
            /\ unit.err = "AddressStackOverflow"
            /\ unit.stack = unit.before
       /\ (unit.call = "push" /\ n < ADDRESS_STACK_SIZE) =>
            /\ unit.err = "None"
            /\ unit.stack.top = n + 1
            /\ unit.stack.arr = [unit.before.arr EXCEPT ![n] = unit.arg]
       /\ (unit.call = "pop" /\ n = 0) =>
            /\ unit.err = "AddressStackUnderflow"
            /\ unit.stack = unit.before
       /\ (unit.call = "pop" /\ n > 0) =>
            /\ unit.err = "None"
            /\ unit.v = unit.held_before[n]
            /\ unit.stack.top = n - 1
       /\ n <= ADDRESS_STACK_SIZE

\* C22 witness: 128 pushes succeeded, the last of them of the all-ones
\* cell, and the 129th overflowed.
C22_Witness ==
  /\ unit.kind = "addrs"
  /\ unit.call = "push"
  /\ Len(unit.held_before) = ADDRESS_STACK_SIZE
  /\ unit.held_before[ADDRESS_STACK_SIZE] = CellBytes(255, 255, 255, 255)
  /\ unit.err = "AddressStackOverflow"
  /\ unit.stack = unit.before

\* C23: DM pops r and then l and, under the core's op_mode, pushes l mod r
\* and then l / r, so the quotient is on top and the modulo beneath it; if
\* r is zero in that mode the handler returns DivisionByZero, nothing is
\* pushed and the ip is not advanced.  MD does the same for l * m with the
\* operands popped as r, m, l.  (Stated of a DM or MD that passed its
\* guard, in SIGNED or UNSIGNED mode or with a zero divisor.)
C23_DivideRemainder ==
  LET core == cores[last.core]
      b == last.before
      n == IF last.op = MD THEN 3 ELSE 2
      r == Peek(b.data, 0)
      l == IF last.op = MD THEN MulU32(Peek(b.data, 2), Peek(b.data, 1))
           ELSE Peek(b.data, 1)
      zero == IF b.op_mode = "FLOAT" THEN FloatIsZero(r) ELSE r = ZeroCell
      \* -2^31 / -1 is 2^31, which is -2^31 as a 32-bit pattern
      wraps == l = INT_MIN /\ r = 0 - 1
      modulo == IF b.op_mode = "UNSIGNED" THEN UDivMod(l, r).r
                ELSE IF wraps THEN 0 ELSE TruncRem(l, r)
      quotient == IF b.op_mode = "UNSIGNED" THEN UDivMod(l, r).q
                  ELSE IF wraps THEN INT_MIN ELSE TruncDiv(l, r)
  IN (last.op \in {DM, MD} /\ guard(b.data, n, 2) = "None"
        /\ (b.op_mode # "FLOAT" \/ zero)) =>
       IF zero
       THEN /\ last.err = "DivisionByZero"
            /\ core.data.top = b.data.top - n
            /\ core.ip = b.ip
       ELSE /\ last.err = "None"
            /\ core.data.top = b.data.top - n + 2
            /\ Peek(core.data, 0) = quotient
            /\ Peek(core.data, 1) = modulo
            /\ \A i \in 0..(b.data.top - n - 1) : core.data.arr[i] = b.data.arr[i]
            /\ core.ip = AddU32(b.ip, 1)

C25_AdvancesByLength ==
  LET length == CASE last.op = LW -> 8
                  [] last.op = LH -> 3
                  [] last.op = LB -> 2
                  [] OTHER -> 1
  IN (last.op >= 0 /\ last.err = "None"
        /\ last.op \notin {CA, CC, JU, CJ, RE, CR, HS}) =>
       cores[last.core].ip = AddU32(last.before.ip, length)

\* C26: HS makes run return SystemHalt and changes nothing: every core
\* (the executing core's ip, modes, stacks and registers among them), the
\* memory, the interrupt table and int_enabled are after the HS what they
\* were before it.
C26_HaltChangesNothing ==
  [][l_hs => /\ pc' = "returned"
             /\ status' = "SystemHalt"
             /\ cores' = cores
             /\ mem' = mem
             /\ int_table' = int_table
             /\ int_enabled' = int_enabled]_vars

\* C26 witness: core 0 executed the HS at address 1 in UNSIGNED mode and
\* run returned SystemHalt with core 0 still at 1 and still UNSIGNED.
C26_Witness ==
  /\ last.op = HS
  /\ last.core = 0
  /\ last.before.op_mode = "UNSIGNED"
  /\ pc = "returned"
  /\ status = "SystemHalt"
  /\ cores[0] = last.before
  /\ cores[0].op_mode = "UNSIGNED"
  /\ cores[0].ip = 1

\* C27: PA followed immediately by UN on the same core reproduces the four
\* bytes in the same order: if the four cells on top of the data stack each
\* hold a value below 256, the data stack after PA; UN is the stack before
\* the PA.
C27_PackUnpackRoundTrip ==
  LET IsByte(k) == Peek(unit.before, k) \in 0..255
  IN (unit.kind = "pack" /\ \A k \in 0..3 : IsByte(k)) =>
       /\ unit.after = unit.before
       /\ unit.pa = "None" => unit.un = "None"

\* C27 witness: 1, 255, 0, 255 (the last on top) over 27 other cells were
\* packed into one cell and unpacked again.
C27_Witness ==
  /\ unit.kind = "pack"
  /\ unit.before.top = DATA_STACK_SIZE - 1
  /\ Peek(unit.before, 3) = 1
  /\ Peek(unit.before, 2) = 255
  /\ Peek(unit.before, 1) = 0
  /\ Peek(unit.before, 0) = 255
  /\ unit.pa = "None"
  /\ Peek(unit.packed, 0) = CellBytes(255, 0, 255, 1)
  /\ unit.packed.top = DATA_STACK_SIZE - 4
  /\ unit.un = "None"
  /\ unit.after = unit.before

\* C28: RegisterBank read and write succeed for the ids 0..23 and round
\* trip: read(id) returns the last value written to id, or zero if none
\* was written since construction or clear; for an id of 24 or more both
\* return IllegalRegisterId and leave the bank unchanged.  WR (pop id, then
\* value) followed by RR of the same id on the same core pushes the value
\* written.
C28_RegistersRoundTrip ==
  LET legal == Below(unit.id, REGISTER_BANK_SIZE)
  IN /\ (unit.kind = "regs" /\ unit.call \in {"read", "write"}) =>
          /\ unit.err = IF legal THEN "None" ELSE "IllegalRegisterId"
          /\ ~legal => unit.bank = unit.before
     /\ (unit.kind = "regs" /\ unit.call = "read" /\ legal) =>
          /\ unit.v = IF unit.written_before[unit.id] = << >> THEN ZeroCell
                      ELSE unit.written_before[unit.id][1]
          /\ unit.bank = unit.before
     /\ (unit.kind = "regs" /\ unit.call = "write" /\ legal) =>
          unit.bank = [unit.before EXCEPT ![unit.id] = unit.value]
     /\ (unit.kind = "wr rr" /\ legal) =>
          /\ unit.wr = "None"
          /\ unit.rr = "None"
          /\ unit.after.top = 1
          /\ Peek(unit.after, 0) = unit.value
     /\ (unit.kind = "wr rr" /\ ~legal) =>
          /\ unit.wr = "IllegalRegisterId"
          /\ unit.regs = RegisterBank

\* C28 witness: all ones was written to register 0 and 42 to register 23,
\* and the read of register 23 that follows returns 42.
C28_Witness ==
  /\ unit.kind = "regs"
  /\ unit.call = "read"
  /\ unit.id = REGISTER_BANK_SIZE - 1
  /\ unit.written_before[unit.id] = <<42>>
  /\ unit.written_before[0] = <<CellBytes(255, 255, 255, 255)>>
  /\ unit.err = "None"
  /\ unit.v = 42

\* C29: in SIGNED and UNSIGNED modes AD, SU and MU compute their result
\* modulo 2^32: for all 32-bit operands l and r the cell pushed is
\* (l op r) mod 2^32, the same in both integer modes.
C29_IntegerArithmeticWraps ==
  unit.kind = "arith" =>
    /\ unit.err = "None"
    /\ unit.after.top = 1
    /\ Peek(unit.after, 0) = CASE unit.op = AD -> AddU32(unit.l, unit.r)
                               [] unit.op = SU -> SubU32(unit.l, unit.r)
                               [] unit.op = MU -> MulU32(unit.l, unit.r)

\* C30: for every core count, current core id c and pattern of active
\* flags, sel_next_core sets cur_core_id to the first active core met
\* when scanning c + 1, c + 2, ... cyclically, ending at c; if c is the
\* only active core cur_core_id stays c, and if no core is active
\* cur_core_id is unchanged.
C30_NextActiveCoreCyclic ==
  unit.kind = "select" =>
    LET CS == unit.CS
        c == unit.cur
        at(i) == (c + i) % CS
        found == {i \in 1..CS : unit.active[at(i)]}
    IN unit.next = IF found = {} THEN c ELSE at(Min(found))

\* C31: under interpret going on from pass to pass, a core that is active
\* while run executes instructions, and did not execute the last one,
\* comes to execute one, unless its active flag is cleared or run returns
\* first.
C31_NoActiveCoreStarved ==
  \A c \in CoreIds :
    (pc = "running" /\ cores[c].active /\ last.core # c) ~>
      (last.core = c \/ ~cores[c].active \/ pc # "running")

\* C32: every pass that enters a handler finds the selected core's active
\* flag true.
C32_DispatchOnActiveCore ==
  last.op >= 0 => last.before.active

\* C33: guard(pops, pushes) returns None exactly when the stack holds the
\* cells to pop and, once they are popped, has room for the cells to push:
\* top >= pops and top - pops + pushes <= DATA_STACK_SIZE.
C33_GuardAllowsNetEffect ==
  probe.asked =>
    (probe.result = "None") <=>
      /\ probe.stack.top >= probe.pops
      /\ probe.stack.top - probe.pops + probe.pushes <= DATA_STACK_SIZE

\* C34: a pass that returns DataStackUnderflow or DataStackOverflow leaves
\* every core, the memory, the interrupt table and int_enabled as the
\* fetch block found them, and run returns that status.
C34_GuardFailureChangesNothing ==
  [][(pc = "running" /\ status' \in {"DataStackUnderflow", "DataStackOverflow"}) =>
       /\ pc' = "returned"
       /\ last'.err = status'
       /\ cores' = cores
       /\ mem' = mem
       /\ int_table' = int_table
       /\ int_enabled' = int_enabled]_vars

\* C34 witness: SP met a full data stack in a VM whose memory holds the
\* program, returned DataStackOverflow and left the core as it was.
C34_Witness ==
  /\ last.op = SP
  /\ last.byte = SP
  /\ last.err = "DataStackOverflow"
  /\ pc = "returned"
  /\ status = "DataStackOverflow"
  /\ last.before.data.top = DATA_STACK_SIZE
  /\ last.before.ip = 2 * DATA_STACK_SIZE
  /\ cores[last.core] = last.before

\* C35: when a handler returns a status other than None, the executing
\* core's data stack has the depth and the cells the fetch block found.
C35_FailureKeepsDataStack ==
  (last.op >= 0 /\ last.err \in Error \ {"None"}) =>
    /\ cores[last.core].data.top = last.before.data.top
    /\ \A i \in 0..(last.before.data.top - 1) :
         cores[last.core].data.arr[i] = last.before.data.arr[i]

\* C36: IC, AC and PC given an id that is not below CORE_COUNT touch no
\* core and nothing outside the cores array: the pass ends with a status
\* of the program, and every core other than the executing one is as it was.
C36_CoreIdWithinArray ==
  [][(/\ pc = "running"
      /\ last'.op \in {IC, AC, PC}
      /\ last'.before.data.top >= (IF last'.op = IC THEN 2 ELSE 1)
      /\ ~Below(Peek(last'.before.data, 0), CORE_COUNT)) =>
       /\ last'.err \in Error
       /\ \A d \in CoreIds \ {last'.core} : cores'[d] = cores[d]
       /\ mem' = mem
       /\ int_table' = int_table
       /\ int_enabled' = int_enabled]_vars

\* C37: a pass that fetches a byte outside the jump table enters no
\* handler block, and ends with a status of the program.
C37_DispatchInsideTable ==
  (last.core >= 0 /\ last.byte >= TABLE_SIZE) =>
    /\ last.op = 0 - 1
    /\ last.err \in Error

\* C38: a pass changes no core other than the one that executes, except
\* the core that IC, AC or PC names with the cell on top of the stack.
C38_CoresIsolated ==
  [][(pc = "running" /\ last'.core >= 0) =>
       \A d \in CoreIds \ {last'.core} :
         \/ cores'[d] = cores[d]
         \/ /\ last'.op \in {IC, AC, PC}
            /\ last'.before.data.top >= 1
            /\ Peek(last'.before.data, 0) = d]_vars

\* C38 witness: core 1 has executed LB while core 0, suspended after RL
\* and SC, keeps its ip, its RELATIVE mode and its cleared active flag.
C38_Witness ==
  /\ last.core = 1
  /\ last.op = LB
  /\ last.tail
  /\ cores[1].data.top = 1
  /\ cores[0].ip = 11
  /\ cores[0].addr_mode = "RELATIVE"
  /\ ~cores[0].active

\* C39: when run is called again on the VM that an HS has just made run
\* return from, its first pass returns SystemHalt and leaves every core,
\* the memory, the interrupt table and int_enabled as they were.
C39_RunAfterHaltIdempotent ==
  [][(after_hs /\ pc = "running" /\ ticks = 0 /\ ticks' = 1) =>
       /\ pc' = "returned"
       /\ status' = "SystemHalt"
       /\ cores' = cores
       /\ mem' = mem
       /\ int_table' = int_table
       /\ int_enabled' = int_enabled]_vars

====
